---- MODULE Spec2Model ----
(***************************************************************************)
(* MicroAI-Paygate gateway: the request-admission pipeline of the paid     *)
(* endpoint (cache middleware, payment verification, backend call, receipt *)
(* issuance), the in-memory receipt store with its TTL expiry tasks, and   *)
(* the content-addressed cache key, the cache store round trip, and the    *)
(* signing of receipts against the client library's verifyReceipt.         *)
(*                                                                         *)
(* The repository holds several drafts of CacheMiddleware and of           *)
(* handleSummarize.  The draft in force is part of the state (mwDraft,     *)
(* hDraft), fixed at start-up, so a property of the specification is a     *)
(* property of every draft.                                                *)
(***************************************************************************)
EXTENDS Integers, Sequences, FiniteSets, TLC

VARIABLES
    mwDraft,        \* which CacheMiddleware is installed on the route
    hDraft,         \* which handleSummarize is installed on the route
    redisClient,    \* "nil" (caching off) or "up"
    cache,          \* the external store: key -> [val: JSON of CachedResponse, expires]
    cacheWrites,    \* storeInCache goroutines started and not yet run
    req,            \* per request: inputs, position in the pipeline, history
    receiptStore,   \* receiptStore map: id -> SignedReceipt
    expiryTasks,    \* TTL cleanup goroutines sleeping: [id, wake]
    stored,         \* history: every storeReceipt call, [receipt, at]
    nextReceiptId,  \* receipt ids allocated so far
    receiptTTL,     \* getReceiptTTL(), in clock ticks
    cacheTTL,       \* CACHE_TTL_SECONDS as the environment gives it, in clock ticks
    cacheCalls,     \* per key, the last storeInCache and the last getFromCache since
    signing,        \* the receipt signed, what the client holds of it, verifyReceipt's answer
    now,            \* wall clock, in ticks
    lookups,        \* responses of handleGetReceipt, newest last
    keyed,          \* cache keys derived for pairs of requests (getCacheKey)
    limiters,       \* initRateLimiters(): tier -> token bucket limiter, or none installed
    admitted,       \* per rate-limit key, the decisions of Allow so far: [at, allowed]
    lastAdmission,  \* what RateLimitMiddleware did with the latest request
    conns,          \* per connection: where its goroutine is in TrackInFlightRequests
    activeRequestsWG,  \* the counter of the sync.WaitGroup
    activeRequestCnt,  \* the atomic request count
    waiter,         \* the goroutine calling WaitForInFlightRequests: idle, waiting, returned
    waitedFor,      \* the connections inside TrackInFlightRequests when the wait began
    leftInside,     \* those of them still inside when the wait returned
    timeouts,       \* the configured timeouts, in ticks: request, ai, verifier
    timed,          \* per request: its deadlines, the call in flight, when it was answered
    racers,         \* per concurrent caller of RateLimitMiddleware: where it is, what it got
    raceStart,      \* the limiters when the concurrent callers arrived
    cacheEnabledEnv,  \* the environment's CACHE_ENABLED
    redisDraft,     \* which getCacheEnabled / initRedis is linked in
    enabledCall,    \* the latest call of getCacheEnabled: the setting, the answer
    redisInit,      \* the latest run of initRedis: the setting, the ping, the client before and after
    payEnv,         \* the environment's RECIPIENT_ADDRESS, PAYMENT_AMOUNT and CHAIN_ID
    verifyCalls,    \* the requests to the paid route so far, each with what was sent to the verifier
    wire            \* one request's body: what arrives, what c.Request.Body is, what the handler read

rateVars == <<limiters, admitted, lastAdmission>>
shutdownVars == <<conns, activeRequestsWG, activeRequestCnt, waiter, waitedFor, leftInside>>
timeVars == <<timeouts, timed>>
raceVars == <<racers, raceStart>>
bootVars == <<cacheEnabledEnv, redisDraft, enabledCall, redisInit>>
payVars == <<payEnv, verifyCalls>>
bodyVars == <<wire>>
extVars == <<raceVars, bootVars, payVars, bodyVars>>
auxVars == <<rateVars, shutdownVars, timeVars, extVars>>

vars == <<auxVars, mwDraft, hDraft, redisClient, cache, cacheWrites, req, receiptStore,
          expiryTasks, stored, nextReceiptId, receiptTTL, cacheTTL, cacheCalls, signing, now, lookups, keyed>>

(* ---- bounds ---- *)
MaxReqs == 2
MaxTime == 3
MaxTTL == 2
MaxStores == 2
MaxLookups == 2
MaxBurst == 2
MaxCalls == 5
MaxConns == 3
MaxTimeout == 2
MaxRacers == 3
MaxRaceTime == 1
MaxPays == 2

(* ---- the parts of the state a specification does not use ---- *)
(* no rate limiter built yet: initRateLimiters has not run *)
RateIdle == limiters = <<>> /\ admitted = <<>> /\ lastAdmission = <<>>
(* no connection yet, nobody waiting *)
Conns == 1..MaxConns
ShutdownIdle ==
    /\ conns = [c \in Conns |-> "out"]
    /\ activeRequestsWG = 0 /\ activeRequestCnt = 0
    /\ waiter = "idle" /\ waitedFor = {} /\ leftInside = {}
(* no timeout configured, no request timed *)
TimeIdle == timeouts = <<>> /\ timed = <<>>
RaceIdle == racers = <<>> /\ raceStart = <<>>
BootIdle == cacheEnabledEnv = "" /\ redisDraft = "none" /\ enabledCall = <<>> /\ redisInit = <<>>
PayIdle == payEnv = <<>> /\ verifyCalls = <<>>
BodyIdle == wire = <<>>
ExtIdle == RaceIdle /\ BootIdle /\ PayIdle /\ BodyIdle
AuxIdle == RateIdle /\ ShutdownIdle /\ TimeIdle /\ ExtIdle

(* ---- request inputs ---- *)
Reqs == 1..MaxReqs

TextA == <<97, 98, 99>>
TextB == <<97, 98, 100>>
TextC == <<72, 101, 108, 108, 111, 32, 87, 111, 114, 108, 100>>
TextD == <<104, 101, 108, 108, 111, 32, 119, 111, 114, 108, 100>>
Texts == {TextA, TextB}
Corpus == {TextA, TextB, TextC, TextD}

(* A request body: JSON carrying a text (in the encoder's own layout, "compact", or
   any other layout of the same document, "spaced"), or bytes that are not JSON. *)
JsonBody(t, layout) == [json |-> TRUE, text |-> t, layout |-> layout]
BadBody == [json |-> FALSE, text |-> <<>>, layout |-> "none"]
Bodies == {JsonBody(TextA, "compact"), JsonBody(TextA, "spaced"),
           JsonBody(TextB, "compact"), BadBody}

Unmarshal(b) == [ok |-> b.json, Text |-> b.text]
Marshal(sr) == JsonBody(sr.Text, "compact")

SigOf(r) == <<"sig", r>>
NonceOf(r) == <<"nonce", r>>
NoHeader == <<>>
RecoveredAddress(sig) == <<"payer", sig[2]>>
NoAddress == <<>>

NoResult == <<>>
NoKey == <<>>
NoReceipt == [receipt |-> [id |-> 0, payer |-> NoAddress, nonce |-> NoHeader,
                           request_hash |-> <<>>, response_hash |-> <<>>],
              signature |-> <<>>, server_public_key |-> <<>>]
NoChallenge == <<>>

(* createPaymentContext: the server's payment terms under a new uuid nonce *)
createPaymentContext(r) == <<"uuid", r>>

(* ---- crypto/sha256 as used by getCacheKey ----
   A 32-bit word is a pair <<hi, lo>> of 16-bit halves. *)
RECURSIVE Xor16(_, _)
Xor16(a, b) == IF a = 0 /\ b = 0 THEN 0 ELSE ((a + b) % 2) + 2 * Xor16(a \div 2, b \div 2)

RECURSIVE And16(_, _)
And16(a, b) == IF a = 0 \/ b = 0 THEN 0 ELSE ((a % 2) * (b % 2)) + 2 * And16(a \div 2, b \div 2)

Xor(a, b) == <<Xor16(a[1], b[1]), Xor16(a[2], b[2])>>
And(a, b) == <<And16(a[1], b[1]), And16(a[2], b[2])>>
Not(a) == <<65535 - a[1], 65535 - a[2]>>

Rotr(w, n) ==
    LET v == IF n >= 16 THEN <<w[2], w[1]>> ELSE w
        k == n % 16
    IN  <<(v[1] \div (2 ^ k)) + (v[2] % (2 ^ k)) * (2 ^ (16 - k)),
          (v[2] \div (2 ^ k)) + (v[1] % (2 ^ k)) * (2 ^ (16 - k))>>

Shr(w, n) ==
    <<w[1] \div (2 ^ n), (w[2] \div (2 ^ n)) + (w[1] % (2 ^ n)) * (2 ^ (16 - n))>>

Add(a, b) ==
    LET lo == a[2] + b[2]
        hi == a[1] + b[1] + (lo \div 65536)
    IN  <<hi % 65536, lo % 65536>>

sha256K == <<
     <<17034, 12184>>, <<28983, 17553>>, <<46528, 64463>>, <<59829, 56229>>,
     <<14678, 49755>>, <<23025, 4593>>, <<37439, 33444>>, <<43804, 24277>>,
     <<55303, 43672>>, <<4739, 23297>>, <<9265, 34238>>, <<21772, 32195>>,
     <<29374, 23924>>, <<32990, 45566>>, <<39900, 1703>>, <<49563, 61812>>,
     <<58523, 27073>>, <<61374, 18310>>, <<4033, 40390>>, <<9228, 41420>>,
     <<11753, 11375>>, <<19060, 33962>>, <<23728, 43484>>, <<30457, 35034>>,
     <<38974, 20818>>, <<43057, 50797>>, <<45059, 10184>>, <<48985, 32711>>,
     <<50912, 3059>>, <<54695, 37191>>, <<1738, 25425>>, <<5161, 10599>>,
     <<10167, 2693>>, <<11803, 8504>>, <<19756, 28156>>, <<21304, 3347>>,
     <<25866, 29524>>, <<30314, 2747>>, <<33218, 51502>>, <<37490, 11397>>,
     <<41663, 59553>>, <<43034, 26187>>, <<49739, 35696>>, <<51052, 20899>>,
     <<53650, 59417>>, <<54937, 1572>>, <<62478, 13701>>, <<4202, 41072>>,
     <<6564, 49430>>, <<7735, 27656>>, <<10056, 30540>>, <<13488, 48309>>,
     <<14620, 3251>>, <<20184, 43594>>, <<23452, 51791>>, <<26670, 28659>>,
     <<29839, 33518>>, <<30885, 25455>>, <<33992, 30740>>, <<36039, 520>>,
     <<37054, 65530>>, <<42064, 27883>>, <<48889, 41975>>, <<50801, 30962>>
>>

sha256H == <<
     <<27145, 58983>>, <<47975, 44677>>, <<15470, 62322>>, <<42319, 62778>>,
     <<20750, 21119>>, <<39685, 26764>>, <<8067, 55723>>, <<23520, 52505>>
>>

Ch(e, f, g) == Xor(And(e, f), And(Not(e), g))
Maj(a, b, c) == Xor(Xor(And(a, b), And(a, c)), And(b, c))
BigSigma0(a) == Xor(Xor(Rotr(a, 2), Rotr(a, 13)), Rotr(a, 22))
BigSigma1(e) == Xor(Xor(Rotr(e, 6), Rotr(e, 11)), Rotr(e, 25))
SmallSigma0(w) == Xor(Xor(Rotr(w, 7), Rotr(w, 18)), Shr(w, 3))
SmallSigma1(w) == Xor(Xor(Rotr(w, 17), Rotr(w, 19)), Shr(w, 10))

(* One 64-byte block: the message, 0x80, zeros, and the bit length in the last bytes
   (messages of at most 55 bytes). *)
PadByte(msg, i) ==
    IF i <= Len(msg) THEN msg[i]
    ELSE IF i = Len(msg) + 1 THEN 128
    ELSE IF i = 63 THEN (8 * Len(msg)) \div 256
    ELSE IF i = 64 THEN (8 * Len(msg)) % 256
    ELSE 0

BlockWord(msg, j) ==
    <<PadByte(msg, 4 * j + 1) * 256 + PadByte(msg, 4 * j + 2),
      PadByte(msg, 4 * j + 3) * 256 + PadByte(msg, 4 * j + 4)>>

(* W[t] for t in lo..hi appended to W, the halves of the range one after the other *)
RECURSIVE Schedule(_, _, _)
Schedule(W, lo, hi) ==
    IF lo = hi
    THEN Append(W, Add(Add(SmallSigma1(W[lo - 2]), W[lo - 7]),
                       Add(SmallSigma0(W[lo - 15]), W[lo - 16])))
    ELSE CHOOSE r \in {Schedule(m, ((lo + hi) \div 2) + 1, hi) :
                       m \in {Schedule(W, lo, (lo + hi) \div 2)}} : TRUE

Round(s, w, k) ==
    LET T1 == Add(Add(Add(s[8], BigSigma1(s[5])), Add(Ch(s[5], s[6], s[7]), k)), w)
        T2 == Add(BigSigma0(s[1]), Maj(s[1], s[2], s[3]))
    IN  <<Add(T1, T2), s[1], s[2], s[3], Add(s[4], T1), s[5], s[6], s[7]>>

(* rounds lo..hi of the compression function applied to the working variables s *)
RECURSIVE Compress(_, _, _, _)
Compress(s, W, lo, hi) ==
    IF lo = hi
    THEN Round(s, W[lo], sha256K[lo])
    ELSE CHOOSE r \in {Compress(m, W, ((lo + hi) \div 2) + 1, hi) :
                       m \in {Compress(s, W, lo, (lo + hi) \div 2)}} : TRUE

Sum256(msg) ==
    LET W == Schedule(<<BlockWord(msg, 0), BlockWord(msg, 1), BlockWord(msg, 2),
                        BlockWord(msg, 3), BlockWord(msg, 4), BlockWord(msg, 5),
                        BlockWord(msg, 6), BlockWord(msg, 7), BlockWord(msg, 8),
                        BlockWord(msg, 9), BlockWord(msg, 10), BlockWord(msg, 11),
                        BlockWord(msg, 12), BlockWord(msg, 13), BlockWord(msg, 14),
                        BlockWord(msg, 15)>>, 17, 64)
    IN  CHOOSE d \in {<<Add(sha256H[1], s[1]), Add(sha256H[2], s[2]),
                        Add(sha256H[3], s[3]), Add(sha256H[4], s[4]),
                        Add(sha256H[5], s[5]), Add(sha256H[6], s[6]),
                        Add(sha256H[7], s[7]), Add(sha256H[8], s[8])>> :
                      s \in {Compress(sha256H, w, 1, 64) : w \in {W}}} : TRUE

HexDigits == <<"0", "1", "2", "3", "4", "5", "6", "7", "8", "9", "a", "b", "c", "d", "e", "f">>

(* the four hex characters of a 16-bit half, most significant first *)
Hex16(h) ==
    <<HexDigits[(h \div 4096) + 1], HexDigits[((h \div 256) % 16) + 1],
      HexDigits[((h \div 16) % 16) + 1], HexDigits[(h % 16) + 1]>>

RECURSIVE EncodeWords(_, _)
EncodeWords(d, i) ==
    IF i > Len(d) THEN <<>>
    ELSE Hex16(d[i][1]) \o Hex16(d[i][2]) \o EncodeWords(d, i + 1)

(* hex.EncodeToString of the 32 digest bytes: 64 characters *)
EncodeToString(d) == EncodeWords(d, 1)

(* ---- variants of the code, for checking that the properties can fail ---- *)
(* a key that folds the text to lower case before hashing it *)
ToLower(text) == [i \in 1..Len(text) |-> IF text[i] >= 65 /\ text[i] <= 90
                                         THEN text[i] + 32 ELSE text[i]]
getCacheKeyFolded(text) == <<"ai:summary:">> \o EncodeToString(Sum256(ToLower(text)))

(* ---- cache key (gateway/cache.go) ---- *)
getCacheKey(text) == <<"ai:summary:">> \o EncodeToString(Sum256(text))

(* the earlier draft keeps the first 16 hex characters of the digest *)
getCacheKeyShort(text) == <<"ai:summary:">> \o SubSeq(EncodeToString(Sum256(text)), 1, 16)

KeyOf == [t \in Corpus |-> getCacheKey(t)]
ShortKeyOf == [t \in Corpus |-> getCacheKeyShort(t)]

(* ---- encodings ---- *)
(* json.Marshal of a value and base64.StdEncoding of bytes, as tagged encodings with
   their decoders: each is one-to-one, and neither output is the value it encodes *)
JsonMarshal(v) == <<"json", v>>
JsonUnmarshal(b) == b[2]
Base64Encode(b) == <<"base64", b>>
Base64Decode(h) == h[2]

(* ---- the external cache store ---- *)
(* time.Now().Unix(): ticks since the epoch; the process starts after the epoch *)
StartUnix == 1
Unix(t) == StartUnix + t

CachedResponse(result, at) == [Result |-> result, CachedAt |-> at]

(* the TTL storeInCache passes to Set: cache.go passes CACHE_TTL_SECONDS as it is,
   the earlier draft (getCacheTTL) replaces a non-positive value by the default *)
DefaultCacheTTL == 3600
CacheTTLOf(draft, seconds) ==
    IF draft = "cache.go" \/ seconds > 0 THEN seconds ELSE DefaultCacheTTL

(* a Set that never attaches a time to live *)
SetExpiryNever(ttl) == 0

(* Set with an expiration: a positive duration is the key's time to live, any other
   stores the key without one (written 0) *)
SetExpiry(ttl) == IF ttl > 0 THEN now + ttl ELSE 0

(* the store has dropped a key whose time to live is over *)
Expired(e) == e.expires # 0 /\ e.expires <= now

(* a lookup that answers with whatever entry the store holds *)
getFromCacheAnyKey(key) ==
    IF redisClient = "nil" \/ DOMAIN cache = {}
    THEN [err |-> TRUE, Result |-> NoResult, CachedAt |-> 0]
    ELSE LET k == CHOOSE k \in DOMAIN cache : TRUE
             c == JsonUnmarshal(cache[k].val)
         IN  [err |-> FALSE, Result |-> c.Result, CachedAt |-> c.CachedAt]

(* getFromCache: (entry, err); err when the client is nil or Get finds no key *)
getFromCache(key) ==
    IF redisClient = "nil" THEN [err |-> TRUE, Result |-> NoResult, CachedAt |-> 0]
    ELSE IF key \in DOMAIN cache /\ ~Expired(cache[key])
    THEN LET c == JsonUnmarshal(cache[key].val)
         IN  [err |-> FALSE, Result |-> c.Result, CachedAt |-> c.CachedAt]
    ELSE [err |-> TRUE, Result |-> NoResult, CachedAt |-> 0]

(* storeInCache: redisClient.Set(key, json of CachedResponse{result, now}, ttl) *)
CacheSet(key, result) ==
    [k \in (DOMAIN cache) \cup {key} |->
        IF k = key
        THEN [val |-> JsonMarshal(CachedResponse(result, Unix(now))),
              expires |-> SetExpiry(CacheTTLOf(mwDraft, cacheTTL))]
        ELSE cache[k]]

(* ---- responses ---- *)
(* a header that carries the receipt without its signature and key *)
ReceiptHeaderUnsigned(sr) ==
    IF sr.receipt.id = 0 THEN NoHeader ELSE Base64Encode(JsonMarshal(sr.receipt))

(* the X-402-Receipt header: set only when a receipt was issued *)
ReceiptHeader(sr) == IF sr.receipt.id = 0 THEN NoHeader ELSE Base64Encode(JsonMarshal(sr))

Response(status, result, receipt, cached, challenge) ==
    [status |-> status, result |-> result, receipt |-> receipt,
     header |-> ReceiptHeader(receipt), cached |-> cached, challenge |-> challenge]

Err(status) == Response(status, NoResult, NoReceipt, FALSE, NoChallenge)

(* ---- receipts ---- *)
hashData(bytes) == <<"sha256", bytes>>

(* the receipt's fields in their fixed order *)
Serialize(rc) == <<rc.id, rc.payer, rc.nonce, rc.request_hash, rc.response_hash>>

SignReceipt(rc) == <<"signed", Serialize(rc)>>

ServerPublicKey == <<"server_public_key">>

(* GenerateReceipt: a signed receipt under a newly allocated id *)
GenerateReceipt(id, payer, nonce, reqBody, respBody) ==
    LET rc == [id |-> id, payer |-> payer, nonce |-> nonce,
               request_hash |-> hashData(reqBody), response_hash |-> hashData(respBody)]
    IN  [receipt |-> rc, signature |-> SignReceipt(rc), server_public_key |-> ServerPublicKey]

(* time.Sleep(d) returns at once for d <= 0 *)
SleepTicks(d) == IF d > 0 THEN d ELSE 0

(* a storeReceipt that assigns a new map holding the one receipt *)
storeReceiptMapReset(store, sr) == [i \in {sr.receipt.id} |-> sr]

(* storeReceipt: receiptStore[receipt.Receipt.ID] = receipt ... *)
storeReceiptMap(store, sr) ==
    [i \in (DOMAIN store) \cup {sr.receipt.id} |->
        IF i = sr.receipt.id THEN sr ELSE store[i]]

(* a storeReceipt that starts no cleanup goroutine *)
storeReceiptTasksNone(tasks, sr) == tasks

(* ... and the goroutine it starts, which sleeps for the TTL and deletes the id *)
storeReceiptTasks(tasks, sr) ==
    tasks \cup {[id |-> sr.receipt.id, wake |-> now + SleepTicks(receiptTTL)]}

storeReceipt(sr) ==
    /\ receiptStore' = storeReceiptMap(receiptStore, sr)
    /\ expiryTasks' = storeReceiptTasks(expiryTasks, sr)
    /\ stored' = stored \cup {[receipt |-> sr, at |-> now]}

(* a getReceipt that drops the map's second return value *)
getReceiptUnchecked(id) ==
    [exists |-> TRUE,
     receipt |-> IF id \in DOMAIN receiptStore THEN receiptStore[id] ELSE NoReceipt]

(* getReceipt: (receipt, exists) *)
getReceipt(id) ==
    IF id \in DOMAIN receiptStore
    THEN [exists |-> TRUE, receipt |-> receiptStore[id]]
    ELSE [exists |-> FALSE, receipt |-> NoReceipt]

(* ---- the request pipeline of POST /api/ai/summarize ---- *)
MwDrafts == {"cache.go", "cache_middleware.go:17", "cache_middleware.go:167", "part_001"}
HandlerDrafts == {"cache_test.go:512", "part_003:178"}

(* what the verifier call comes back with: a reply saying valid or invalid, no reply
   within the deadline, no connection, a body that is not the reply's JSON, and a
   JSON body in which is_valid decodes as true and another field has the wrong
   type, so that Decode sets IsValid and returns an error *)
VerifierReplies == {"valid", "invalid", "timeout", "unreachable", "malformed",
                    "malformed_partial"}
BackendReplies == {"ok", "fail", "timeout"}

NewRequest ==
    [pc |-> "idle", sig |-> NoHeader, nonce |-> NoHeader, body |-> BadBody,
     key |-> NoKey, wrapped |-> FALSE, cached |-> NoResult, verify |-> "none",
     backend |-> "none",
     payer |-> NoAddress, summary |-> NoResult, rcpt |-> NoReceipt,
     resp |-> <<>>, log |-> <<>>]

Summary(text, r) == <<"summary", text, r>>

(* which requests a draft of CacheMiddleware hands to the handler untouched *)
MwBypass(draft, q) ==
    \/ redisClient = "nil"
    \/ draft = "cache.go" /\ (q.sig = NoHeader \/ q.nonce = NoHeader)
    \/ draft \in {"cache_middleware.go:167", "part_001"} /\ q.sig = NoHeader
    \/ ~Unmarshal(q.body).ok

(* which drafts look the key up in the middleware, before the handler runs *)
MwLooksUp(draft) == draft \in {"cache.go", "cache_middleware.go:17", "cache_middleware.go:167"}

(* which drafts answer a hit at once, and which verify the payment first *)
MwServesHitUnverified(draft) == draft \in {"cache_middleware.go:17", "cache_middleware.go:167"}

(* what the wrapped writer captured is cacheable: status 200 and a body that parses
   as one JSON document with a string "result" *)
Cacheable(q) ==
    /\ Len(q.resp) = 1
    /\ q.resp[1].status = 200
    /\ q.resp[1].result # NoResult

(* the calls a request has made so far to the verifier and to the backend *)
VerifierCalls(q) ==
    Cardinality({i \in 1..Len(q.log) : q.log[i] \in {"verified", "verify_failed"}})
BackendCalls(q) == Cardinality({i \in 1..Len(q.log) : q.log[i] = "backend"})

(* a handler that goes back to the verifier once after a response of 500 or above *)
ReturnedRetrying(q) ==
    IF q.resp # <<>> /\ q.resp[Len(q.resp)].status >= 500 /\ VerifierCalls(q) = 1
    THEN [q EXCEPT !.pc = "h_verify"]
    ELSE [q EXCEPT !.pc = "done"]

(* a middleware that holds the request until the store of its result has finished *)
ReturnedAfterStore(q) ==
    [q EXCEPT !.pc = IF q.wrapped /\ Cacheable(q) THEN "storing" ELSE "done"]

(* the handler has returned: the request is done, and CacheMiddleware, where it
   wrapped the writer, starts the goroutine that stores a cacheable result *)
Returned(q) == [q EXCEPT !.pc = "done"]

(* a middleware that stores whatever the handler answered *)
MwAfterAnyResponse(r, q) ==
    IF q.wrapped /\ q.resp # <<>>
    THEN {[key |-> q.key, result |-> q.resp[1].result, by |-> r]}
    ELSE {}

(* a middleware whose store is cancelled with the request that started it *)
MwAfterCancelled(r, q) == {}

MwAfter(r, q) ==
    IF q.wrapped /\ Cacheable(q)
    THEN {[key |-> q.key, result |-> q.resp[1].result, by |-> r]}
    ELSE {}

(* handleSummarize, step 1: payment headers, or 402 with a new challenge *)
HPayment(r, q) ==
    IF q.sig = NoHeader \/ q.nonce = NoHeader
    THEN Returned([q EXCEPT !.resp = Append(@, Response(402, NoResult, NoReceipt, FALSE,
                                                        createPaymentContext(r)))])
    ELSE [q EXCEPT !.pc = "h_verify"]

(* the request as it reaches the route: CacheMiddleware's header checks, body
   parse, cache key and lookup, then c.Next() into the handler's header check *)
(* a middleware that answers a failed lookup with an error of its own *)
MwMissSurfaced(r, q, key, getOk) ==
    IF getOk
    THEN HPayment(r, [q EXCEPT !.key = key, !.wrapped = TRUE, !.log = Append(@, "get")])
    ELSE Returned([q EXCEPT !.key = key, !.log = Append(@, "get_err"),
                            !.resp = Append(@, Err(500))])

(* the branch of the middleware for err != nil from getFromCache, a failed Get and an
   absent key alike: wrap the writer and run the handler *)
MwMiss(r, q, key, getOk) ==
    HPayment(r, [q EXCEPT !.key = key, !.wrapped = TRUE,
                          !.log = Append(@, IF getOk THEN "get" ELSE "get_err")])

(* Get at call time: getOk is whether the store answered *)
Lookup(key, getOk) ==
    IF getOk THEN getFromCache(key)
    ELSE [err |-> TRUE, Result |-> NoResult, CachedAt |-> 0]

Entered(r, q, getOk) ==
    LET key == KeyOf[Unmarshal(q.body).Text]
        got == Lookup(key, getOk)
    IN  IF MwBypass(mwDraft, q)
        THEN HPayment(r, q)
        ELSE IF ~MwLooksUp(mwDraft)
        THEN HPayment(r, [q EXCEPT !.key = key, !.wrapped = TRUE])
        ELSE IF got.err
        THEN MwMiss(r, q, key, getOk)
        ELSE IF MwServesHitUnverified(mwDraft)
        THEN [q EXCEPT !.pc = "done", !.key = key, !.cached = got.Result,
                       !.log = Append(@, "get"),
                       !.resp = Append(@, Response(200, got.Result, NoReceipt, TRUE,
                                                   NoChallenge))]
        ELSE [q EXCEPT !.pc = "mw_verify", !.key = key, !.cached = got.Result,
                       !.log = Append(@, "get")]

(* request r with its headers and body reaches the route *)
Arrived(r, s, n, b, getOk) ==
    LET q == Entered(r, [req[r] EXCEPT !.sig = s, !.nonce = n, !.body = b], getOk)
    IN  /\ req' = [req EXCEPT ![r] = q]
        /\ cacheWrites' = IF q.pc = "done" THEN cacheWrites \cup MwAfter(r, q)
                          ELSE cacheWrites

MwEnterWith(r, getOk) ==
    /\ req[r].pc = "idle"
    /\ \A q \in Reqs : q < r => req[q].pc # "idle"
    /\ \E s \in {NoHeader, SigOf(r)}, n \in {NoHeader, NonceOf(r)}, b \in Bodies :
          Arrived(r, s, n, b, getOk)
    /\ UNCHANGED <<auxVars, mwDraft, hDraft, redisClient, cache, receiptStore, expiryTasks,
                   stored, nextReceiptId, receiptTTL, cacheTTL, cacheCalls, signing, now, lookups, keyed>>

(* a request enters the chain; the store answers its Get or fails to *)
MwEnter(r) == \E getOk \in BOOLEAN : MwEnterWith(r, getOk)

(* an issuance that takes the payment details of the request that filled the
   cache, the first one, instead of the request's own *)
IssueFirstPayer(r, q, reqBody, respBody) ==
    LET rc == GenerateReceipt(nextReceiptId + 1, req[1].payer, req[1].nonce, reqBody,
                              respBody)
    IN  /\ storeReceipt(rc)
        /\ nextReceiptId' = nextReceiptId + 1
        /\ req' = [req EXCEPT ![r] = [q EXCEPT !.rcpt = rc, !.log = Append(@, "issue")]]

(* GenerateReceipt succeeding: the receipt is stored and kept for the response *)
Issue(r, q, reqBody, respBody) ==
    LET rc == GenerateReceipt(nextReceiptId + 1, q.payer, q.nonce, reqBody, respBody)
    IN  /\ storeReceipt(rc)
        /\ nextReceiptId' = nextReceiptId + 1
        /\ req' = [req EXCEPT ![r] = [q EXCEPT !.rcpt = rc, !.log = Append(@, "issue")]]

(* the status verifyPayment's caller answers with, 0 when the payment is verified *)
MwVerifyStatus(reply) ==
    CASE reply = "timeout" -> 504
      [] reply \in {"unreachable", "malformed", "malformed_partial"} -> 500
      [] reply = "invalid" -> 403
      [] OTHER -> 0

(* cache.go, hit: verifyPayment before the cached result is served, then
   generateAndSendReceipt issuing a receipt for the cached result and storing it; a
   failure to issue leaves the request without a receipt *)
MwVerify(r) ==
    /\ req[r].pc = "mw_verify"
    /\ \E reply \in VerifierReplies :
          LET st == MwVerifyStatus(reply)
              q == [req[r] EXCEPT
                      !.verify = reply,
                      !.log = Append(@, IF st = 0 THEN "verified" ELSE "verify_failed"),
                      !.payer = IF reply = "valid" THEN RecoveredAddress(req[r].sig) ELSE NoAddress]
          IN  IF st # 0
              THEN /\ req' = [req EXCEPT ![r] = Returned([q EXCEPT !.resp = Append(@, Err(st))])]
                   /\ UNCHANGED <<receiptStore, expiryTasks, stored, nextReceiptId>>
              ELSE \/ Issue(r, [q EXCEPT !.pc = "mw_respond"], q.body, q.cached)
                   \/ /\ req' = [req EXCEPT ![r] = [q EXCEPT !.pc = "mw_respond",
                                                             !.log = Append(@, "issue")]]
                      /\ UNCHANGED <<receiptStore, expiryTasks, stored, nextReceiptId>>
    /\ UNCHANGED <<auxVars, mwDraft, hDraft, redisClient, cache, cacheWrites, receiptTTL, cacheTTL, cacheCalls, signing, now,
                   lookups, keyed>>

(* ... and the 200 response carrying the cached result; c.Abort() *)
MwRespond(r) ==
    /\ req[r].pc = "mw_respond"
    /\ req' = [req EXCEPT ![r] =
                 Returned([@ EXCEPT !.resp = Append(@, Response(200, req[r].cached,
                                                      req[r].rcpt, FALSE, NoChallenge))])]
    /\ UNCHANGED <<auxVars, mwDraft, hDraft, redisClient, cache, cacheWrites, receiptStore,
                   expiryTasks, stored, nextReceiptId, receiptTTL, cacheTTL, cacheCalls, signing, now,
                   lookups, keyed>>

(* a handler that goes on whatever the verifier replied *)
HVerifyStatusAcceptAll(draft, reply) == 0

(* the status the handler answers the verifier's reply with, 0 when it goes on *)
HVerifyStatus(draft, reply) ==
    IF draft = "cache_test.go:512"
    THEN CASE reply \in {"timeout", "unreachable", "malformed", "malformed_partial"} -> 500
           [] reply = "invalid" -> 403
           [] OTHER -> 0
    ELSE CASE reply = "timeout" -> 504
           [] reply = "unreachable" -> 500
           [] reply \in {"invalid", "malformed"} -> 403
           [] OTHER -> 0

(* handleSummarize, steps 2 and 3: the verifier call, then BindJSON *)
HVerify(r) ==
    /\ req[r].pc = "h_verify"
    /\ \E reply \in VerifierReplies :
          LET st == HVerifyStatus(hDraft, reply)
              q == [req[r] EXCEPT
                      !.verify = reply,
                      !.log = Append(@, IF st = 0 THEN "verified" ELSE "verify_failed"),
                      !.payer = IF reply = "valid" THEN RecoveredAddress(req[r].sig) ELSE NoAddress]
              out == IF st # 0 THEN Returned([q EXCEPT !.resp = Append(@, Err(st))])
                     ELSE IF ~Unmarshal(q.body).ok
                     THEN Returned([q EXCEPT !.resp = Append(@, Err(400))])
                     ELSE [q EXCEPT !.pc = "h_backend"]
          IN  /\ req' = [req EXCEPT ![r] = out]
              /\ cacheWrites' = IF out.pc = "done" THEN cacheWrites \cup MwAfter(r, out)
                                ELSE cacheWrites
    /\ UNCHANGED <<auxVars, mwDraft, hDraft, redisClient, cache, receiptStore, expiryTasks,
                   stored, nextReceiptId, receiptTTL, cacheTTL, cacheCalls, signing, now, lookups, keyed>>

(* the responses the handler writes when callOpenRouter fails *)
HBackendErrors(draft, reply) ==
    IF draft = "cache_test.go:512" THEN <<Err(500)>>
    ELSE IF reply = "timeout" THEN <<Err(500), Err(504)>>
    ELSE <<Err(500), Err(500)>>

(* handleSummarize, steps 3 and 4: the backend call, then GenerateReceipt and
   storeReceipt; without a receipt the result is answered as it is *)
HBackend(r) ==
    /\ req[r].pc = "h_backend"
    /\ \E reply \in BackendReplies :
          LET sr == Unmarshal(req[r].body)
              q == [req[r] EXCEPT !.log = Append(@, "backend"), !.backend = reply]
              ok == [q EXCEPT !.summary = Summary(sr.Text, r)]
              plain == Response(200, ok.summary, NoReceipt, FALSE, NoChallenge)
              failed == Returned([q EXCEPT !.resp = @ \o HBackendErrors(hDraft, reply)])
              bare == Returned([ok EXCEPT !.resp = Append(@, plain)])
              unissued == Returned([ok EXCEPT !.log = Append(@, "issue"),
                                              !.resp = Append(@, plain)])
          IN  IF reply = "ok" /\ hDraft = "cache_test.go:512"
              THEN \/ /\ Issue(r, [ok EXCEPT !.pc = "h_respond"], Marshal(sr), ok.summary)
                      /\ UNCHANGED cacheWrites
                   \/ /\ req' = [req EXCEPT ![r] = unissued]
                      /\ cacheWrites' = cacheWrites \cup MwAfter(r, unissued)
                      /\ UNCHANGED <<receiptStore, expiryTasks, stored, nextReceiptId>>
              ELSE LET out == IF reply = "ok" THEN bare ELSE failed
                   IN  /\ req' = [req EXCEPT ![r] = out]
                       /\ cacheWrites' = cacheWrites \cup MwAfter(r, out)
                       /\ UNCHANGED <<receiptStore, expiryTasks, stored, nextReceiptId>>
    /\ UNCHANGED <<auxVars, mwDraft, hDraft, redisClient, cache, receiptTTL, cacheTTL, cacheCalls, signing, now, lookups, keyed>>

(* handleSummarize, step 4, the response: X-402-Receipt header and the JSON body *)
HRespond(r) ==
    /\ req[r].pc = "h_respond"
    /\ LET out == Returned([req[r] EXCEPT
                      !.resp = Append(@, Response(200, req[r].summary, req[r].rcpt,
                                                  FALSE, NoChallenge))])
       IN  /\ req' = [req EXCEPT ![r] = out]
           /\ cacheWrites' = cacheWrites \cup MwAfter(r, out)
    /\ UNCHANGED <<auxVars, mwDraft, hDraft, redisClient, cache, receiptStore, expiryTasks,
                   stored, nextReceiptId, receiptTTL, cacheTTL, cacheCalls, signing, now, lookups, keyed>>

(* storeInCache in its goroutine: Set, whose failure is logged and dropped *)
CacheStoreWith(w, setOk) ==
    /\ w \in cacheWrites
    /\ cacheWrites' = cacheWrites \ {w}
    /\ cache' = IF setOk /\ redisClient # "nil" THEN CacheSet(w.key, w.result) ELSE cache
    /\ UNCHANGED <<auxVars, mwDraft, hDraft, redisClient, req, receiptStore, expiryTasks,
                   stored, nextReceiptId, receiptTTL, cacheTTL, cacheCalls, signing, now, lookups, keyed>>

(* the goroutine started by the middleware runs storeInCache; its Set succeeds or fails *)
CacheStore(w) == \E setOk \in BOOLEAN : CacheStoreWith(w, setOk)

(* without a Redis client every draft of the middleware is the same c.Next(), so
   one draft stands for all of them there *)
Init ==
    /\ mwDraft \in MwDrafts
    /\ hDraft \in HandlerDrafts
    /\ redisClient \in {"nil", "up"}
    /\ redisClient = "nil" => mwDraft = "cache.go"
    /\ cache = <<>>
    /\ cacheWrites = {}
    /\ req = [r \in Reqs |-> NewRequest]
    /\ receiptStore = <<>>
    /\ expiryTasks = {}
    /\ stored = {}
    /\ nextReceiptId = 0
    /\ receiptTTL = MaxTTL
    /\ cacheTTL = MaxTTL
    /\ cacheCalls = {}
    /\ signing = <<>>
    /\ AuxIdle
    /\ now = 0
    /\ lookups = <<>>
    /\ keyed = <<>>

Next ==
    \/ \E r \in Reqs : MwEnter(r)
    \/ \E r \in Reqs : MwVerify(r)
    \/ \E r \in Reqs : MwRespond(r)
    \/ \E r \in Reqs : HVerify(r)
    \/ \E r \in Reqs : HBackend(r)
    \/ \E r \in Reqs : HRespond(r)
    \/ \E w \in cacheWrites : CacheStore(w)

Spec == Init /\ [][Next]_vars

(* ---- the pipeline with the cache store available ---- *)
(* the startup check passed and every Get and Set reaches the store; each goroutine
   started with `go storeInCache` is scheduled by the runtime, whatever becomes of the
   request that started it *)
InitLive == Init /\ redisClient = "up"

NextLive ==
    \/ \E r \in Reqs : MwEnterWith(r, TRUE)
    \/ \E r \in Reqs : MwVerify(r)
    \/ \E r \in Reqs : MwRespond(r)
    \/ \E r \in Reqs : HVerify(r)
    \/ \E r \in Reqs : HBackend(r)
    \/ \E r \in Reqs : HRespond(r)
    \/ \E w \in cacheWrites : CacheStoreWith(w, TRUE)

SpecLive ==
    /\ InitLive
    /\ [][NextLive]_vars
    /\ \A r \in Reqs : WF_vars(\E w \in cacheWrites : w.by = r /\ CacheStoreWith(w, TRUE))

(* ---- the pipeline with every handler running to its end ---- *)
(* the goroutine serving a request that has reached the route keeps running: the
   verifier and the backend answer or fail, and the handler returns. Nothing is
   assumed about the goroutines started with `go storeInCache`, nor about arrivals. *)
SpecServe ==
    /\ Init /\ [][Next]_vars
    /\ \A r \in Reqs :
          WF_vars(MwVerify(r) \/ MwRespond(r) \/ HVerify(r) \/ HBackend(r) \/ HRespond(r))

(* ---- the cache key as a function of the request ---- *)
KeyTexts == Corpus
KeyLayouts == {"compact", "spaced"}

(* a request as the key derivation sees it: headers and body *)
KeyRequest(t, layout, i) == [sig |-> SigOf(i), nonce |-> NonceOf(i), body |-> JsonBody(t, layout)]

(* CacheMiddleware's key for a request, in the two drafts of getCacheKey *)
RequestKey(q) == KeyOf[Unmarshal(q.body).Text]
RequestKeyShort(q) == ShortKeyOf[Unmarshal(q.body).Text]

KeyedOf(a, b) ==
    [a |-> a, b |-> b, ka |-> RequestKey(a), kb |-> RequestKey(b),
     sa |-> RequestKeyShort(a), sb |-> RequestKeyShort(b)]

InitKey ==
    /\ Init
    /\ mwDraft = "cache.go"
    /\ hDraft = "cache_test.go:512"
    /\ redisClient = "up"

(* two requests have their keys derived *)
DeriveKeys ==
    /\ \E ta \in KeyTexts, tb \in KeyTexts, la \in KeyLayouts, lb \in KeyLayouts,
          i \in Reqs, j \in Reqs :
          keyed' = <<KeyedOf(KeyRequest(ta, la, i), KeyRequest(tb, lb, j))>>
    /\ UNCHANGED <<auxVars, mwDraft, hDraft, redisClient, cache, cacheWrites, req, receiptStore,
                   expiryTasks, stored, nextReceiptId, receiptTTL, cacheTTL, cacheCalls, signing, now, lookups>>

NextKey == DeriveKeys

SpecKey == InitKey /\ [][NextKey]_vars

(* ---- the receipt store over time ---- *)
(* the ids a client can ask for: those issued so far, and one never issued *)
ReceiptIds == 1..(nextReceiptId + 1)

(* a request reaches storeReceipt with the receipt GenerateReceipt gave it *)
StoreReceipt ==
    /\ nextReceiptId < MaxStores
    /\ LET id == nextReceiptId + 1
       IN  storeReceipt(GenerateReceipt(id, RecoveredAddress(SigOf(id)), NonceOf(id),
                                        JsonBody(TextA, "compact"), Summary(TextA, id)))
    /\ nextReceiptId' = nextReceiptId + 1
    /\ UNCHANGED <<auxVars, mwDraft, hDraft, redisClient, cache, cacheWrites, req, receiptTTL, cacheTTL, cacheCalls, signing,
                   now, lookups, keyed>>

(* the goroutine of storeReceipt wakes from its sleep and deletes the id *)
ExpireReceipt(t) ==
    /\ t \in expiryTasks
    /\ t.wake <= now
    /\ receiptStore' = [i \in (DOMAIN receiptStore) \ {t.id} |-> receiptStore[i]]
    /\ expiryTasks' = expiryTasks \ {t}
    /\ UNCHANGED <<auxVars, mwDraft, hDraft, redisClient, cache, cacheWrites, req, stored,
                   nextReceiptId, receiptTTL, cacheTTL, cacheCalls, signing, now, lookups, keyed>>

(* handleGetReceipt: GET /api/receipts/:id *)
ReceiptResponse(id) ==
    LET got == getReceipt(id)
    IN  IF ~got.exists
        THEN [id |-> id, at |-> now, status |-> 404, receipt |-> NoReceipt.receipt,
              signature |-> NoReceipt.signature,
              server_public_key |-> NoReceipt.server_public_key]
        ELSE [id |-> id, at |-> now, status |-> 200, receipt |-> got.receipt.receipt,
              signature |-> got.receipt.signature,
              server_public_key |-> got.receipt.server_public_key]

handleGetReceipt(id) ==
    /\ Len(lookups) < MaxLookups
    /\ lookups' = Append(lookups, ReceiptResponse(id))
    /\ UNCHANGED <<auxVars, mwDraft, hDraft, redisClient, cache, cacheWrites, req, receiptStore,
                   expiryTasks, stored, nextReceiptId, receiptTTL, cacheTTL, cacheCalls, signing, now, keyed>>

(* the clock advances one tick; a cleanup whose sleep has ended runs within the tick
   it is due in *)
Tick ==
    /\ now < MaxTime
    /\ \A t \in expiryTasks : t.wake > now
    /\ now' = now + 1
    /\ UNCHANGED <<auxVars, mwDraft, hDraft, redisClient, cache, cacheWrites, req, receiptStore,
                   expiryTasks, stored, nextReceiptId, receiptTTL, cacheTTL, cacheCalls, signing, lookups, keyed>>

(* getReceiptTTL: RECEIPT_TTL as the environment gives it, 86400 s by default; the
   values are ticks of the model's clock *)
ReceiptTTLs == (0 - 1)..MaxTTL

InitReceipts ==
    /\ mwDraft = "cache.go"
    /\ hDraft = "cache_test.go:512"
    /\ redisClient = "up"
    /\ cache = <<>>
    /\ cacheWrites = {}
    /\ req = [r \in Reqs |-> NewRequest]
    /\ receiptStore = <<>>
    /\ expiryTasks = {}
    /\ stored = {}
    /\ nextReceiptId = 0
    /\ receiptTTL \in ReceiptTTLs
    /\ cacheTTL = MaxTTL
    /\ cacheCalls = {}
    /\ signing = <<>>
    /\ AuxIdle
    /\ now = 0
    /\ lookups = <<>>
    /\ keyed = <<>>

NextReceipts ==
    \/ StoreReceipt
    \/ \E t \in expiryTasks : ExpireReceipt(t)
    \/ \E id \in ReceiptIds : handleGetReceipt(id)
    \/ Tick

SpecReceipts == InitReceipts /\ [][NextReceipts]_vars

(* ---- the cache store on its own: storeInCache, getFromCache and the clock ---- *)
CacheKeys == {KeyOf[TextA], KeyOf[TextB]}
CacheResults == {Summary(TextA, 1), Summary(TextA, 2)}
CacheTTLs == 0..MaxTTL

(* the calls observed per key: its last storeInCache and the last getFromCache made
   since, each with what it was given and what it returned *)
CacheCall(op, key, result, err, cachedAt, ttl) ==
    [op |-> op, key |-> key, result |-> result, at |-> now, err |-> err,
     CachedAt |-> cachedAt, ttl |-> ttl]

SetCalls == {c \in cacheCalls : c.op = "set"}
GetCalls == {c \in cacheCalls : c.op = "get"}

(* storeInCache(key, result) runs to completion against the available store *)
StoreInCache(key, result) ==
    /\ cache' = CacheSet(key, result)
    /\ cacheCalls' = {c \in cacheCalls : c.key # key}
                     \cup {CacheCall("set", key, result, FALSE, Unix(now),
                                     CacheTTLOf(mwDraft, cacheTTL))}
    /\ UNCHANGED <<auxVars, mwDraft, hDraft, redisClient, cacheWrites, req, receiptStore,
                   expiryTasks, stored, nextReceiptId, receiptTTL, cacheTTL, signing, now,
                   lookups, keyed>>

(* getFromCache(key) and what it returns *)
GetFromCache(key) ==
    /\ LET got == getFromCache(key)
       IN  cacheCalls' = {c \in cacheCalls : ~(c.op = "get" /\ c.key = key)}
                         \cup {CacheCall("get", key, got.Result, got.err, got.CachedAt, 0)}
    /\ UNCHANGED <<auxVars, mwDraft, hDraft, redisClient, cache, cacheWrites, req, receiptStore,
                   expiryTasks, stored, nextReceiptId, receiptTTL, cacheTTL, signing, now,
                   lookups, keyed>>

InitCache ==
    /\ mwDraft \in MwDrafts
    /\ hDraft = "cache_test.go:512"
    /\ redisClient = "up"
    /\ cache = <<>>
    /\ cacheWrites = {}
    /\ req = [r \in Reqs |-> NewRequest]
    /\ receiptStore = <<>>
    /\ expiryTasks = {}
    /\ stored = {}
    /\ nextReceiptId = 0
    /\ receiptTTL = MaxTTL
    /\ cacheTTL \in CacheTTLs
    /\ cacheCalls = {}
    /\ signing = <<>>
    /\ AuxIdle
    /\ now = 0
    /\ lookups = <<>>
    /\ keyed = <<>>

NextCache ==
    \/ \E key \in CacheKeys, result \in CacheResults : StoreInCache(key, result)
    \/ \E key \in CacheKeys : GetFromCache(key)
    \/ Tick

SpecCache == InitCache /\ [][NextCache]_vars

(* ---- signing a receipt in the gateway and verifying it in the client library ---- *)
(* strings are sequences of characters; the nonce is the X-402-Nonce header as the
   client sent it, the other fields are produced by the gateway *)
SignIds == {<<"r", "1">>, <<"r", "2">>}
SignPayers == {<<"0", "x", "a">>, <<"0", "x", "b">>}
SignNonces == {<<"n", "1">>, <<"n", "2">>, <<"a", "&", "b">>}
SignHashes == {<<"h", "1">>, <<"h", "2">>}
SignFields == <<"id", "payer", "nonce", "request_hash", "response_hash">>

SignReceipts ==
    [id : SignIds, payer : SignPayers, nonce : SignNonces,
     request_hash : SignHashes, response_hash : SignHashes]

FieldValues(f) ==
    IF f = "id" THEN SignIds ELSE IF f = "payer" THEN SignPayers
    ELSE IF f = "nonce" THEN SignNonces ELSE SignHashes

(* encoding/json writes a string between quotes, escapes quote and backslash, and with
   its default HTML escaping writes <, > and & as \u003c, \u003e and \u0026 *)
GoEscape(c) ==
    IF c = "&" THEN <<"\\", "u", "0", "0", "2", "6">>
    ELSE IF c = "<" THEN <<"\\", "u", "0", "0", "3", "c">>
    ELSE IF c = ">" THEN <<"\\", "u", "0", "0", "3", "e">>
    ELSE IF c = "\"" \/ c = "\\" THEN <<"\\", c>>
    ELSE <<c>>

(* JSON.stringify escapes quote and backslash and leaves <, > and & as they are *)
JsEscape(c) == IF c = "\"" \/ c = "\\" THEN <<"\\", c>> ELSE <<c>>

RECURSIVE GoChars(_)
GoChars(v) == IF v = <<>> THEN <<>> ELSE GoEscape(Head(v)) \o GoChars(Tail(v))

RECURSIVE JsChars(_)
JsChars(v) == IF v = <<>> THEN <<>> ELSE JsEscape(Head(v)) \o JsChars(Tail(v))

GoString(v) == <<"\"">> \o GoChars(v) \o <<"\"">>
JsString(v) == <<"\"">> \o JsChars(v) \o <<"\"">>

(* JSON.parse of a string: the characters the escapes stand for *)
UnicodeChar(h) ==
    IF h = <<"0", "0", "2", "6">> THEN "&"
    ELSE IF h = <<"0", "0", "3", "c">> THEN "<" ELSE ">"

RECURSIVE ParseChars(_)
ParseChars(b) ==
    IF b = <<>> THEN <<>>
    ELSE IF b[1] # "\\" THEN <<b[1]>> \o ParseChars(Tail(b))
    ELSE IF b[2] = "u"
    THEN <<UnicodeChar(SubSeq(b, 3, 6))>> \o ParseChars(SubSeq(b, 7, Len(b)))
    ELSE <<b[2]>> \o ParseChars(SubSeq(b, 3, Len(b)))

JsonParseString(b) == ParseChars(SubSeq(b, 2, Len(b) - 1))

(* json.Marshal(receipt): the fields in their fixed order, each name followed by its
   value *)
RECURSIVE MarshalFields(_, _)
MarshalFields(rc, i) ==
    IF i > Len(SignFields) THEN <<>>
    ELSE <<SignFields[i], ":">> \o GoString(rc[SignFields[i]]) \o MarshalFields(rc, i + 1)

MarshalReceipt(rc) == MarshalFields(rc, 1)

(* JSON.stringify(signedReceipt.receipt): the properties in the order JSON.parse
   created them, which is the order of the document *)
RECURSIVE StringifyFields(_, _)
StringifyFields(rc, i) ==
    IF i > Len(SignFields) THEN <<>>
    ELSE <<SignFields[i], ":">> \o JsString(rc[SignFields[i]]) \o StringifyFields(rc, i + 1)

StringifyReceipt(rc) == StringifyFields(rc, 1)

Keccak256(bytes) == <<"keccak256", bytes>>

(* crypto.Sign with the server key: R, S and the recovery id, 65 bytes; recovering the
   key from a hash and a signature gives the signer's key for the hash that was
   signed and an unrelated key for any other *)
ServerSign(hash) == [len |-> 65, signer |-> ServerPublicKey, hash |-> hash]
UnrelatedPublicKey == <<"unrelated_public_key">>
RecoverPublicKey(hash, sig) == IF sig.hash = hash THEN sig.signer ELSE UnrelatedPublicKey

(* the signed receipt as the gateway produces it *)
SignedOf(rc) ==
    [receipt |-> rc, signature |-> ServerSign(Keccak256(MarshalReceipt(rc))),
     server_public_key |-> ServerPublicKey]

(* the response document and what the client reads out of it *)
Wire(sr) ==
    [receipt |-> [f \in DOMAIN sr.receipt |-> GoString(sr.receipt[f])],
     signature |-> sr.signature, server_public_key |-> sr.server_public_key]

Received(doc) ==
    [receipt |-> [f \in DOMAIN doc.receipt |-> JsonParseString(doc.receipt[f])],
     signature |-> doc.signature, server_public_key |-> doc.server_public_key]

(* verifyReceipt of the client library *)
verifyReceipt(sr) ==
    /\ sr.signature.len = 65
    /\ RecoverPublicKey(Keccak256(StringifyReceipt(sr.receipt)), sr.signature)
          = sr.server_public_key

NoSigning ==
    [stage |-> "idle", first |-> <<>>, second |-> <<>>,
     got |-> SignedOf([id |-> <<>>, payer |-> <<>>, nonce |-> <<>>,
                       request_hash |-> <<>>, response_hash |-> <<>>]),
     changed |-> "none", valid |-> FALSE]

(* the gateway signs a receipt, serializing it once for the signature and once more,
   and the client reads the signed receipt from the response *)
SignAndSend(rc) ==
    /\ signing.stage = "idle"
    /\ signing' = [signing EXCEPT !.stage = "received",
                                  !.first = MarshalReceipt(rc),
                                  !.second = MarshalReceipt(SignedOf(rc).receipt),
                                  !.got = Received(Wire(SignedOf(rc)))]
    /\ UNCHANGED <<auxVars, mwDraft, hDraft, redisClient, cache, cacheWrites, req, receiptStore,
                   expiryTasks, stored, nextReceiptId, receiptTTL, cacheTTL, cacheCalls,
                   now, lookups, keyed>>

(* one field of the received receipt is changed to another value *)
Tamper(f, v) ==
    /\ signing.stage = "received"
    /\ signing.changed = "none"
    /\ v # signing.got.receipt[f]
    /\ signing' = [signing EXCEPT !.changed = f, !.got.receipt[f] = v]
    /\ UNCHANGED <<auxVars, mwDraft, hDraft, redisClient, cache, cacheWrites, req, receiptStore,
                   expiryTasks, stored, nextReceiptId, receiptTTL, cacheTTL, cacheCalls,
                   now, lookups, keyed>>

(* the client verifies what it holds *)
Verify ==
    /\ signing.stage = "received"
    /\ signing' = [signing EXCEPT !.stage = "verified", !.valid = verifyReceipt(signing.got)]
    /\ UNCHANGED <<auxVars, mwDraft, hDraft, redisClient, cache, cacheWrites, req, receiptStore,
                   expiryTasks, stored, nextReceiptId, receiptTTL, cacheTTL, cacheCalls,
                   now, lookups, keyed>>

InitSign ==
    /\ mwDraft = "cache.go"
    /\ hDraft = "cache_test.go:512"
    /\ redisClient = "up"
    /\ cache = <<>>
    /\ cacheWrites = {}
    /\ req = [r \in Reqs |-> NewRequest]
    /\ receiptStore = <<>>
    /\ expiryTasks = {}
    /\ stored = {}
    /\ nextReceiptId = 0
    /\ receiptTTL = MaxTTL
    /\ cacheTTL = MaxTTL
    /\ cacheCalls = {}
    /\ signing = NoSigning
    /\ AuxIdle
    /\ now = 0
    /\ lookups = <<>>
    /\ keyed = <<>>

NextSign ==
    \/ \E rc \in SignReceipts : SignAndSend(rc)
    \/ \E i \in 1..Len(SignFields) : \E v \in FieldValues(SignFields[i]) :
          Tamper(SignFields[i], v)
    \/ Verify

SpecSign == InitSign /\ [][NextSign]_vars

(* ---- the rate limiter (part_003: initRateLimiters, RateLimitMiddleware) ----
   The clock ticks in seconds. A bucket counts its tokens in sixtieths, so that a
   rate of R tokens per minute adds R sixtieths per second and the arithmetic stays
   in the integers. *)
Tiers == {"anonymous", "standard", "verified"}
Rates == {30, 60, 120}
Bursts == 1..MaxBurst
NoLimiters == <<>>

(* RATE_LIMIT_CLEANUP_INTERVAL, in ticks *)
CleanupTTL == MaxTime

Min(a, b) == IF a < b THEN a ELSE b

(* NewTokenBucket(rpm, burst, cleanupTTL): no bucket exists until a key is first seen *)
NewTokenBucket(rpm, burst, ttl) ==
    [rate |-> rpm, capacity |-> burst, ttl |-> ttl, buckets |-> <<>>]

(* a bucket that is never refilled *)
RefilledNever(tb, key, t) ==
    IF key \in DOMAIN tb.buckets THEN tb.buckets[key].tokens ELSE tb.capacity * 60

(* a refill without the cap at the capacity *)
RefilledUncapped(tb, key, t) ==
    IF key \in DOMAIN tb.buckets
    THEN tb.buckets[key].tokens + (t - tb.buckets[key].last) * tb.rate
    ELSE tb.capacity * 60

(* the tokens of key at time t: a new bucket is full; an existing one has gained
   elapsed * rate / 60 tokens since its last refill, capped at the capacity *)
Refilled(tb, key, t) ==
    IF key \in DOMAIN tb.buckets
    THEN Min(tb.capacity * 60, tb.buckets[key].tokens + (t - tb.buckets[key].last) * tb.rate)
    ELSE tb.capacity * 60

(* an Allow that answers without taking the token *)
AllowWithoutTaking(tb, key, t) ==
    LET have == Refilled(tb, key, t)
    IN  [ok |-> have >= 60,
         limiter |-> [tb EXCEPT !.buckets = (key :> [tokens |-> have, last |-> t]) @@ @]]

(* Allow(key): refill, then take one token if a whole one is there *)
Allow(tb, key, t) ==
    LET have == Refilled(tb, key, t)
        left == IF have >= 60 THEN have - 60 ELSE have
    IN  [ok |-> have >= 60,
         limiter |-> [tb EXCEPT !.buckets = (key :> [tokens |-> left, last |-> t]) @@ @]]

(* GetRemaining(key): whole tokens *)
GetRemaining(tb, key, t) == Refilled(tb, key, t) \div 60

(* GetResetTime(key): the unix second in which the next whole token is there *)
GetResetTime(tb, key, t) ==
    LET have == Refilled(tb, key, t)
    IN  IF have >= 60 THEN Unix(t) ELSE Unix(t) + ((60 - have) \div tb.rate)

(* the periodic sweep: buckets idle for the cleanup TTL are dropped *)
Swept(tb, t) ==
    [tb EXCEPT !.buckets = [k \in {j \in DOMAIN tb.buckets : t - tb.buckets[j].last < tb.ttl}
                             |-> tb.buckets[k]]]

initRateLimiters(anonymous, standard, verified) ==
    [tier \in Tiers |->
        LET cfg == CASE tier = "anonymous" -> anonymous
                     [] tier = "standard" -> standard
                     [] OTHER -> verified
        IN  NewTokenBucket(cfg[1], cfg[2], CleanupTTL)]

(* the callers: one network address; nonce headers as bytes *)
ClientIP == <<"198.51.100.7">>
RateNonces == {NonceOf(r) : r \in Reqs}
ForgedNonces == {NonceOf(1), NonceOf(2)}
NonceBytes(n) == <<110, 48 + n[2]>>
NonceKeyOf == [n \in RateNonces |->
                  <<"nonce:">> \o SubSeq(EncodeToString(Sum256(NonceBytes(n))), 1, 32)]

getRateLimitKey(sig, nonce, ip) ==
    IF sig # NoHeader /\ nonce # NoHeader THEN NonceKeyOf[nonce] ELSE <<"ip:">> \o ip

(* a tier chosen by the signature header alone *)
selectRateLimitTierBySignature(sig, nonce) ==
    IF sig # NoHeader THEN "standard" ELSE "anonymous"

selectRateLimitTier(sig, nonce) ==
    IF sig # NoHeader /\ nonce # NoHeader THEN "standard" ELSE "anonymous"

(* a retry hint that is the bare difference *)
calculateRetryAfterRaw(tb, key, t) == GetResetTime(tb, key, t) - Unix(t)

calculateRetryAfter(tb, key, t) ==
    LET retryAfter == GetResetTime(tb, key, t) - Unix(t)
    IN  IF retryAfter < 1 THEN 1 ELSE retryAfter

getLimitForTier(lims, tier) == lims[tier].rate

(* the routes of main behind the global middleware: handleHealth answers 200; the
   summarize handler answers 402 without both payment headers and otherwise goes on
   to the verifier (status 0 here: the later steps are those of the pipeline) *)
Paths == {"/healthz", "/api/ai/summarize"}
ForgedSig == <<"sig", 0>>
NoAdmission == <<>>

RouteStatus(path, sig, nonce) ==
    IF path = "/healthz" THEN 200
    ELSE IF sig = NoHeader \/ nonce = NoHeader THEN 402
    ELSE 0

(* RateLimitMiddleware on one request at time t: the limiters afterwards and what the
   request got (status 0: c.Next() was called) *)
RateLimitMiddleware(lims, sig, nonce, ip, t) ==
    LET key == getRateLimitKey(sig, nonce, ip)
        tier == selectRateLimitTier(sig, nonce)
        a == Allow(lims[tier], key, t)
    IN  [limiters |-> [lims EXCEPT ![tier] = a.limiter],
         key |-> key, tier |-> tier, at |-> t, allowed |-> a.ok,
         status |-> IF a.ok THEN 0 ELSE 429,
         retryAfter |-> IF a.ok THEN 0 ELSE calculateRetryAfter(a.limiter, key, t),
         limit |-> getLimitForTier(lims, tier),
         remaining |-> IF a.ok THEN GetRemaining(a.limiter, key, t) ELSE 0,
         took |-> Refilled(lims[tier], key, t) - Refilled(a.limiter, key, t)]

(* main without RATE_LIMIT_ENABLED installs no limiter: every request goes on *)
Unlimited(t) ==
    [limiters |-> NoLimiters, key |-> NoKey, tier |-> "none", at |-> t, allowed |-> TRUE,
     status |-> 0, retryAfter |-> 0, limit |-> 0, remaining |-> 0, took |-> 0]

Admission(lims, sig, nonce, ip, t) ==
    IF lims = NoLimiters THEN Unlimited(t) ELSE RateLimitMiddleware(lims, sig, nonce, ip, t)

(* what is kept of the latest run of the middleware: the request (0: not one of the
   pipeline's), its path and the status it got from the chain *)
AdmissionOf(a, path, by, status) ==
    [path |-> path, by |-> by, key |-> a.key, tier |-> a.tier, at |-> a.at,
     allowed |-> a.allowed, retryAfter |-> a.retryAfter, limit |-> a.limit,
     remaining |-> a.remaining, took |-> a.took, status |-> status]

(* the decisions so far for a key, the newest last *)
Recorded(adm, a) ==
    IF a.key = NoKey THEN adm
    ELSE (a.key :> Append(IF a.key \in DOMAIN adm THEN adm[a.key] ELSE <<>>,
                          [at |-> a.at, allowed |-> a.allowed])) @@ adm

RECURSIVE CallsOf(_, _)
CallsOf(adm, keys) ==
    IF keys = {} THEN 0
    ELSE LET k == CHOOSE j \in keys : TRUE
         IN  Len(adm[k]) + CallsOf(adm, keys \ {k})

(* one request through the chain of main: the rate limiter, then its route *)
Serve(path, sig, nonce) ==
    /\ CallsOf(admitted, DOMAIN admitted) < MaxCalls
    /\ nonce = NonceOf(2) => NonceKeyOf[NonceOf(1)] \in DOMAIN admitted
    /\ LET a == Admission(limiters, sig, nonce, ClientIP, now)
       IN  /\ limiters' = a.limiters
           /\ admitted' = Recorded(admitted, a)
           /\ lastAdmission' = AdmissionOf(a, path, 0,
                                            IF a.allowed THEN RouteStatus(path, sig, nonce)
                                            ELSE a.status)
    /\ UNCHANGED <<extVars, shutdownVars, timeVars, mwDraft, hDraft, redisClient, cache, cacheWrites, req,
                   receiptStore, expiryTasks, stored, nextReceiptId, receiptTTL, cacheTTL,
                   cacheCalls, signing, now, lookups, keyed>>

(* the sweep timer fires: idle buckets go *)
Sweep ==
    /\ limiters # NoLimiters
    /\ \E tier \in Tiers : Swept(limiters[tier], now) # limiters[tier]
    /\ limiters' = [tier \in Tiers |-> Swept(limiters[tier], now)]
    /\ UNCHANGED <<extVars, shutdownVars, timeVars, admitted, lastAdmission, mwDraft, hDraft, redisClient, cache, cacheWrites,
                   req, receiptStore, expiryTasks, stored, nextReceiptId, receiptTTL,
                   cacheTTL, cacheCalls, signing, now, lookups, keyed>>

(* the environment's RPM and burst of the anonymous and the standard tier *)
RateConfigs == {<<<<30, 1>>, <<60, 1>>>>, <<<<60, 2>>, <<120, 2>>>>, <<<<120, 1>>, <<30, 2>>>>}

InitRate ==
    /\ mwDraft = "cache.go"
    /\ hDraft = "part_003:178"
    /\ redisClient = "nil"
    /\ cache = <<>>
    /\ cacheWrites = {}
    /\ req = [r \in Reqs |-> NewRequest]
    /\ receiptStore = <<>>
    /\ expiryTasks = {}
    /\ stored = {}
    /\ nextReceiptId = 0
    /\ receiptTTL = MaxTTL
    /\ cacheTTL = MaxTTL
    /\ cacheCalls = {}
    /\ signing = <<>>
    /\ limiters \in {NoLimiters} \cup
                    {initRateLimiters(c[1], c[2], <<120, MaxBurst>>) : c \in RateConfigs}
    /\ admitted = <<>>
    /\ lastAdmission = NoAdmission
    /\ ShutdownIdle
    /\ TimeIdle
    /\ ExtIdle
    /\ now = 0
    /\ lookups = <<>>
    /\ keyed = <<>>

NextRate ==
    \/ \E path \in Paths, sig \in {NoHeader, ForgedSig}, nonce \in {NoHeader} \cup ForgedNonces :
          Serve(path, sig, nonce)
    \/ Sweep
    \/ Tick

SpecRate == InitRate /\ [][NextRate]_vars

(* ---- concurrent callers of RateLimitMiddleware (part_003:412-443) ---- *)
(* gin runs every request on a goroutine of its own, so several callers are inside the
   middleware at once.  Each one computes its key and tier and calls Allow, which is
   one atomic step on the bucket; the calls for the response headers (GetRemaining,
   GetResetTime, calculateRetryAfter) are later steps that read whatever the bucket
   holds by then. *)
Racers == 1..MaxRacers

OutRacer ==
    [pc |-> "out", sig |-> NoHeader, nonce |-> NoHeader, key |-> NoKey, tier |-> "none",
     at |-> 0, allowed |-> FALSE, status |-> 0, remaining |-> 0, retryAfter |-> 0]

RaceStep(c, rec) ==
    /\ racers' = [racers EXCEPT ![c] = rec]
    /\ UNCHANGED <<bootVars, payVars, bodyVars, raceStart, admitted, lastAdmission, shutdownVars, timeVars, mwDraft, hDraft,
                   redisClient, cache, cacheWrites, req, receiptStore, expiryTasks, stored,
                   nextReceiptId, receiptTTL, cacheTTL, cacheCalls, signing, now, lookups, keyed>>

(* a request reaches the middleware; the callers are numbered as they arrive *)
RArrive(c, sig, nonce) ==
    /\ racers[c].pc = "out"
    /\ \A d \in Racers : d < c => racers[d].pc # "out"
    /\ limiters' = limiters
    /\ RaceStep(c, [racers[c] EXCEPT !.pc = "arrived", !.sig = sig, !.nonce = nonce])

(* lines 415-421: key, tier, limiter.Allow(key) *)
RAllow(c) ==
    /\ racers[c].pc = "arrived"
    /\ LET key == getRateLimitKey(racers[c].sig, racers[c].nonce, ClientIP)
           tier == selectRateLimitTier(racers[c].sig, racers[c].nonce)
           a == Allow(limiters[tier], key, now)
       IN  /\ limiters' = [limiters EXCEPT ![tier] = a.limiter]
           /\ RaceStep(c, [racers[c] EXCEPT !.pc = IF a.ok THEN "allowed" ELSE "denied",
                                            !.key = key, !.tier = tier, !.at = now,
                                            !.allowed = a.ok])

(* lines 422-433: the 429 with its retry hint, and the chain is aborted;
   lines 436-441: the headers of an allowed request, and c.Next() *)
RAnswer(c) ==
    /\ racers[c].pc \in {"allowed", "denied"}
    /\ limiters' = limiters
    /\ LET tb == limiters[racers[c].tier]
       IN  IF racers[c].pc = "denied"
           THEN RaceStep(c, [racers[c] EXCEPT !.pc = "aborted", !.status = 429,
                                              !.retryAfter = calculateRetryAfter(tb, racers[c].key, now)])
           ELSE RaceStep(c, [racers[c] EXCEPT !.pc = "next",
                                              !.remaining = GetRemaining(tb, racers[c].key, now)])

(* the callers' headers: each of the two payment headers is there or not *)
RaceHeaders == {<<NoHeader, NoHeader>>, <<ForgedSig, NoHeader>>, <<NoHeader, NonceOf(1)>>,
                <<ForgedSig, NonceOf(1)>>}

(* the address has drawn some tokens of its bucket before the callers arrive *)
Drawn(lims, n) ==
    IF n = 0 THEN lims
    ELSE [lims EXCEPT !["anonymous"].buckets =
             (<<"ip:">> \o ClientIP) :> [tokens |-> (lims["anonymous"].capacity - n) * 60, last |-> 0]]

InitRace ==
    /\ mwDraft = "cache.go"
    /\ hDraft = "part_003:178"
    /\ redisClient = "nil"
    /\ cache = <<>>
    /\ cacheWrites = {}
    /\ req = [r \in Reqs |-> NewRequest]
    /\ receiptStore = <<>>
    /\ expiryTasks = {}
    /\ stored = {}
    /\ nextReceiptId = 0
    /\ receiptTTL = MaxTTL
    /\ cacheTTL = MaxTTL
    /\ cacheCalls = {}
    /\ signing = <<>>
    /\ \E c \in RateConfigs : \E n \in 0..MaxBurst :
          /\ n <= c[1][2]
          /\ limiters = Drawn(initRateLimiters(c[1], c[2], <<120, MaxBurst>>), n)
    /\ raceStart = limiters
    /\ BootIdle /\ PayIdle /\ BodyIdle
    /\ racers = [c \in Racers |-> OutRacer]
    /\ admitted = <<>>
    /\ lastAdmission = NoAdmission
    /\ ShutdownIdle
    /\ TimeIdle
    /\ now = 0
    /\ lookups = <<>>
    /\ keyed = <<>>

(* the clock, for as long as the callers are watched *)
RaceTick == now < MaxRaceTime /\ Tick

NextRace ==
    \/ \E c \in Racers, h \in RaceHeaders : RArrive(c, h[1], h[2])
    \/ \E c \in Racers : RAllow(c)
    \/ \E c \in Racers : RAnswer(c)
    \/ RaceTick

SpecRace == InitRace /\ [][NextRace]_vars

(* ---- the summarize route behind the rate limiter (part_003: main) ---- *)
(* request r comes in: RateLimitMiddleware answers 429 and aborts the chain, or calls
   c.Next() and the request reaches the route *)
GateEnter(r) ==
    /\ req[r].pc = "idle"
    /\ \A q \in Reqs : q < r => req[q].pc # "idle"
    /\ \E s \in {NoHeader, SigOf(r)}, n \in {NoHeader, NonceOf(r)}, b \in Bodies,
          getOk \in BOOLEAN :
          LET a == Admission(limiters, s, n, ClientIP, now)
          IN  /\ limiters' = a.limiters
              /\ admitted' = Recorded(admitted, a)
              /\ lastAdmission' = AdmissionOf(a, "/api/ai/summarize", r, a.status)
              /\ IF a.allowed
                 THEN Arrived(r, s, n, b, getOk)
                 ELSE /\ req' = [req EXCEPT ![r] =
                                   Returned([@ EXCEPT !.sig = s, !.nonce = n, !.body = b,
                                                      !.resp = Append(@, Err(429))])]
                      /\ UNCHANGED cacheWrites
    /\ UNCHANGED <<extVars, shutdownVars, timeVars, mwDraft, hDraft, redisClient, cache, receiptStore,
                   expiryTasks, stored, nextReceiptId, receiptTTL, cacheTTL, cacheCalls,
                   signing, now, lookups, keyed>>

(* this main puts no CacheMiddleware on the route and its handler answers by itself
   (no h_respond step): the chain is the limiter and handleSummarize *)
InitGate ==
    /\ mwDraft = "cache.go"
    /\ hDraft = "part_003:178"
    /\ redisClient = "nil"
    /\ cache = <<>>
    /\ cacheWrites = {}
    /\ req = [r \in Reqs |-> NewRequest]
    /\ receiptStore = <<>>
    /\ expiryTasks = {}
    /\ stored = {}
    /\ nextReceiptId = 0
    /\ receiptTTL = MaxTTL
    /\ cacheTTL = MaxTTL
    /\ cacheCalls = {}
    /\ signing = <<>>
    /\ limiters \in {initRateLimiters(c[1], c[2], <<120, MaxBurst>>) : c \in RateConfigs}
    /\ admitted = <<>>
    /\ lastAdmission = NoAdmission
    /\ ShutdownIdle
    /\ TimeIdle
    /\ ExtIdle
    /\ now = 0
    /\ lookups = <<>>
    /\ keyed = <<>>

NextGate ==
    \/ \E r \in Reqs : GateEnter(r)
    \/ \E r \in Reqs : HVerify(r)
    \/ \E r \in Reqs : HBackend(r)
    \/ Tick

SpecGate == InitGate /\ [][NextGate]_vars

(* ---- in-flight request tracking (part_004) ----
   Each connection's goroutine runs TrackInFlightRequests around the rest of the chain;
   another goroutine calls WaitForInFlightRequests. A connection is inside from its
   Add(1) to its Done(). *)
Inside(c) == conns[c] \in {"added", "counted", "deferred", "panicking", "uncounted", "uncounted_p"}

(* a Wait that returns whatever the counter is *)
WaitDoneAlways(counter) == TRUE

(* sync.WaitGroup.Wait returns when the counter is zero *)
WaitDone(counter) == counter = 0

ShutdownStep(c, from, to, wg, cnt) ==
    /\ conns[c] = from
    /\ conns' = [conns EXCEPT ![c] = to]
    /\ activeRequestsWG' = activeRequestsWG + wg
    /\ activeRequestCnt' = activeRequestCnt + cnt
    /\ UNCHANGED <<extVars, rateVars, timeVars, waiter, waitedFor, leftInside, mwDraft, hDraft, redisClient,
                   cache, cacheWrites, req, receiptStore, expiryTasks, stored,
                   nextReceiptId, receiptTTL, cacheTTL, cacheCalls, signing, now, lookups,
                   keyed>>

(* activeRequestsWG.Add(1) *)
TrackAdd(c) == ShutdownStep(c, "out", "added", 1, 0)
(* atomic.AddInt64(&activeRequestCnt, 1) *)
TrackCount(c) == ShutdownStep(c, "added", "counted", 0, 1)
(* c.Next(): the handlers of the chain run and return ... *)
TrackNext(c) == ShutdownStep(c, "counted", "deferred", 0, 0)
(* ... or one of them panics; the deferred function runs either way, while the panic
   unwinds *)
TrackPanic(c) == ShutdownStep(c, "counted", "panicking", 0, 0)
(* a decrement that is skipped when the handler panicked *)
TrackUncountUnlessPanicked(c) ==
    \/ ShutdownStep(c, "deferred", "uncounted", 0, -1)
    \/ ShutdownStep(c, "panicking", "uncounted_p", 0, 0)
(* deferred: atomic.AddInt64(&activeRequestCnt, -1) *)
TrackUncount(c) ==
    \/ ShutdownStep(c, "deferred", "uncounted", 0, -1)
    \/ ShutdownStep(c, "panicking", "uncounted_p", 0, -1)
(* deferred: activeRequestsWG.Done(); the panic goes on up the stack *)
TrackDone(c) ==
    \/ ShutdownStep(c, "uncounted", "left", -1, 0)
    \/ ShutdownStep(c, "uncounted_p", "panicked", -1, 0)

(* WaitForInFlightRequests is called *)
WaitBegin ==
    /\ waiter = "idle"
    /\ waiter' = "waiting"
    /\ waitedFor' = {c \in Conns : Inside(c)}
    /\ UNCHANGED <<extVars, rateVars, timeVars, conns, activeRequestsWG, activeRequestCnt, leftInside, mwDraft,
                   hDraft, redisClient, cache, cacheWrites, req, receiptStore, expiryTasks,
                   stored, nextReceiptId, receiptTTL, cacheTTL, cacheCalls, signing, now,
                   lookups, keyed>>

(* activeRequestsWG.Wait() returns *)
WaitReturn ==
    /\ waiter = "waiting"
    /\ WaitDone(activeRequestsWG)
    /\ waiter' = "returned"
    /\ leftInside' = {c \in waitedFor : Inside(c)}
    /\ UNCHANGED <<extVars, rateVars, timeVars, conns, activeRequestsWG, activeRequestCnt, waitedFor, mwDraft,
                   hDraft, redisClient, cache, cacheWrites, req, receiptStore, expiryTasks,
                   stored, nextReceiptId, receiptTTL, cacheTTL, cacheCalls, signing, now,
                   lookups, keyed>>

(* GetActiveRequestCount *)
GetActiveRequestCount == activeRequestCnt

InitShutdown ==
    /\ mwDraft = "cache.go"
    /\ hDraft = "part_003:178"
    /\ redisClient = "nil"
    /\ cache = <<>>
    /\ cacheWrites = {}
    /\ req = [r \in Reqs |-> NewRequest]
    /\ receiptStore = <<>>
    /\ expiryTasks = {}
    /\ stored = {}
    /\ nextReceiptId = 0
    /\ receiptTTL = MaxTTL
    /\ cacheTTL = MaxTTL
    /\ cacheCalls = {}
    /\ signing = <<>>
    /\ AuxIdle
    /\ now = 0
    /\ lookups = <<>>
    /\ keyed = <<>>

NextShutdown ==
    \/ \E c \in Conns : TrackAdd(c)
    \/ \E c \in Conns : TrackCount(c)
    \/ \E c \in Conns : TrackNext(c)
    \/ \E c \in Conns : TrackPanic(c)
    \/ \E c \in Conns : TrackUncount(c)
    \/ \E c \in Conns : TrackDone(c)
    \/ WaitBegin
    \/ WaitReturn

(* a goroutine that can run does run: every handler returns, the deferred calls
   follow, and a Wait whose counter stays at zero returns; nothing makes a new
   connection arrive *)
SpecShutdown ==
    /\ InitShutdown /\ [][NextShutdown]_vars
    /\ \A c \in Conns : WF_vars(TrackCount(c) \/ TrackNext(c) \/ TrackPanic(c) \/ TrackUncount(c) \/ TrackDone(c))
    /\ WF_vars(WaitReturn)

(* ---- deadlines of the summarize route (part_003: main, handleSummarize) ----
   A context is its deadline; a context without one has the deadline Never, later
   than every instant the clock reaches. *)
Never == MaxTime + MaxTimeout + 1
Timeouts == 1..MaxTimeout

(* a derived context that forgets its parent's deadline *)
WithTimeoutReplacing(parent, t, d) == t + d

(* context.WithTimeout(parent, d) at time t: the parent's deadline if that is earlier *)
WithTimeout(parent, t, d) == Min(parent, t + d)

(* RequestTimeoutMiddleware(d): the request continues under a context derived from the
   one it came with *)
RequestTimeoutMiddleware(parent, t, d) == WithTimeout(parent, t, d)

(* c.Request.Context() as the handler sees it: main of part_003 nests the global
   timeout and the one of the /api/ai group; the other drafts of main set none *)
RequestContext(draft, t) ==
    IF draft = "part_003:178"
    THEN RequestTimeoutMiddleware(RequestTimeoutMiddleware(Never, t, timeouts.request),
                                  t, timeouts.ai)
    ELSE Never

(* the context of the verifier call: WithTimeout on the request's context, or http.Post,
   which takes no context *)
VerifierContext(draft, ctx, t) ==
    IF draft = "part_003:178" THEN WithTimeout(ctx, t, timeouts.verifier) ELSE Never

(* the context of the backend call: the request's own, or http.NewRequest without one *)
BackendContext(draft, ctx) == IF draft = "part_003:178" THEN ctx ELSE Never

NewTimed ==
    [pc |-> "idle", entered |-> 0, outer |-> Never, call |-> Never, began |-> 0,
     verifierDeadline |-> Never, backendDeadline |-> Never, gone |-> FALSE,
     resp |-> <<>>, at |-> 0, outcome |-> "none"]

InFlight(r) == timed[r].pc \in {"verifying", "backend"}
Due(deadline, t) == deadline <= t

Answered(q, resps, outcome) ==
    [q EXCEPT !.pc = "done", !.resp = @ \o resps, !.at = now, !.outcome = outcome,
              !.call = Never]

TimedStep(r, q) ==
    /\ timed' = [timed EXCEPT ![r] = q]
    /\ UNCHANGED <<extVars, rateVars, shutdownVars, timeouts, mwDraft, hDraft, redisClient, cache,
                   cacheWrites, req, receiptStore, expiryTasks, stored, nextReceiptId,
                   receiptTTL, cacheTTL, cacheCalls, signing, now, lookups, keyed>>

(* the request runs through the timeout middlewares into the handler: 402 without the
   payment headers, else the verifier call starts *)
TEnter(r) ==
    /\ timed[r].pc = "idle"
    /\ \A q \in Reqs : q < r => timed[q].pc # "idle"
    /\ now <= MaxTime
    /\ \E paid \in BOOLEAN :
          LET ctx == RequestContext(hDraft, now)
              vctx == VerifierContext(hDraft, ctx, now)
              q == [timed[r] EXCEPT !.entered = now, !.outer = ctx]
          IN  IF ~paid
              THEN TimedStep(r, Answered(q, <<Response(402, NoResult, NoReceipt, FALSE,
                                                       createPaymentContext(r))>>, "reply"))
              ELSE TimedStep(r, [q EXCEPT !.pc = "verifying", !.call = vctx,
                                          !.began = now, !.verifierDeadline = vctx])

(* the verifier answers in time, or the connection fails; on a valid payment and a
   body that binds, the backend call starts *)
TVerifierReply(r) ==
    /\ timed[r].pc = "verifying"
    /\ ~Due(timed[r].call, now)
    /\ \E reply \in VerifierReplies \ {"timeout"}, bound \in BOOLEAN :
          LET st == HVerifyStatus(hDraft, reply)
              bctx == BackendContext(hDraft, timed[r].outer)
          IN  IF st # 0 THEN TimedStep(r, Answered(timed[r], <<Err(st)>>, "reply"))
              ELSE IF ~bound THEN TimedStep(r, Answered(timed[r], <<Err(400)>>, "reply"))
              ELSE TimedStep(r, [timed[r] EXCEPT !.pc = "backend", !.call = bctx,
                                                 !.backendDeadline = bctx])

(* the backend answers in time, or fails *)
TBackendReply(r) ==
    /\ timed[r].pc = "backend"
    /\ ~Due(timed[r].call, now)
    /\ \E reply \in BackendReplies \ {"timeout"} :
          TimedStep(r, Answered(timed[r],
                                IF reply = "ok"
                                THEN <<Response(200, Summary(TextA, r), NoReceipt, FALSE,
                                                NoChallenge)>>
                                ELSE HBackendErrors(hDraft, reply), "reply"))

(* the deadline of the call in flight is reached: Do returns context.DeadlineExceeded *)
TExpire(r) ==
    /\ InFlight(r)
    /\ Due(timed[r].call, now)
    /\ TimedStep(r, Answered(timed[r],
                             IF timed[r].pc = "verifying"
                             THEN <<Err(HVerifyStatus(hDraft, "timeout"))>>
                             ELSE HBackendErrors(hDraft, "timeout"), "timeout"))

(* the caller disconnects during a call: the server cancels the request's context, and
   a call made under it returns context.Canceled; a call made without a context goes on *)
TCallerGone(r) ==
    /\ InFlight(r)
    /\ ~timed[r].gone
    /\ LET q == [timed[r] EXCEPT !.gone = TRUE]
       IN  IF hDraft = "part_003:178"
           THEN TimedStep(r, Answered(q, IF q.pc = "verifying"
                                         THEN <<Err(HVerifyStatus(hDraft, "unreachable"))>>
                                         ELSE HBackendErrors(hDraft, "fail"), "canceled"))
           ELSE TimedStep(r, q)

(* a second passes; a deadline that is reached ends its call first *)
TimeTick ==
    /\ \A r \in Reqs : InFlight(r) => ~Due(timed[r].call, now)
    /\ now < MaxTime \/ \E r \in Reqs : InFlight(r) /\ timed[r].call # Never
    /\ now' = now + 1
    /\ UNCHANGED <<auxVars, mwDraft, hDraft, redisClient, cache, cacheWrites, req,
                   receiptStore, expiryTasks, stored, nextReceiptId, receiptTTL, cacheTTL,
                   cacheCalls, signing, lookups, keyed>>

(* the timeouts are read by main of part_003 only: one configuration stands for all
   of them under the other drafts *)
InitTimed(drafts) ==
    /\ mwDraft = "cache.go"
    /\ hDraft \in drafts
    /\ redisClient = "nil"
    /\ cache = <<>>
    /\ cacheWrites = {}
    /\ req = [r \in Reqs |-> NewRequest]
    /\ receiptStore = <<>>
    /\ expiryTasks = {}
    /\ stored = {}
    /\ nextReceiptId = 0
    /\ receiptTTL = MaxTTL
    /\ cacheTTL = MaxTTL
    /\ cacheCalls = {}
    /\ signing = <<>>
    /\ RateIdle /\ ShutdownIdle /\ ExtIdle
    /\ timeouts \in [request : Timeouts, ai : Timeouts, verifier : Timeouts]
    /\ hDraft # "part_003:178" => timeouts = [request |-> 1, ai |-> 1, verifier |-> 1]
    /\ timed = [r \in Reqs |-> NewTimed]
    /\ now = 0
    /\ lookups = <<>>
    /\ keyed = <<>>

NextTime ==
    \/ \E r \in Reqs : TEnter(r)
    \/ \E r \in Reqs : TVerifierReply(r)
    \/ \E r \in Reqs : TBackendReply(r)
    \/ \E r \in Reqs : TExpire(r)
    \/ \E r \in Reqs : TCallerGone(r)
    \/ TimeTick

(* the route as main of part_003 builds it *)
InitTime == InitTimed({"part_003:178"})
SpecTime == InitTime /\ [][NextTime]_vars

(* every draft of the route, with time passing and timers firing; the verifier, the
   backend and the caller are free to stay silent *)
InitTimeFair == InitTimed(HandlerDrafts)
SpecTimeFair ==
    /\ InitTimeFair /\ [][NextTime]_vars
    /\ WF_vars(TimeTick)
    /\ \A r \in Reqs : WF_vars(TExpire(r))

(* ---- start-up of the cache client (redis.go, part_000: initRedis) ---- *)
(* the settings of CACHE_ENABLED that occur; os.Getenv gives "" for an unset variable *)
EnabledValues == {"", "true", "1", "false", "0", "TRUE", "yes"}
RedisDrafts == {"redis.go", "part_000"}

(* redis.go:42-44 compares with "true"; part_000:132-135 also accepts "1" *)
getCacheEnabled(draft, enabled) ==
    IF draft = "redis.go" THEN enabled = "true" ELSE enabled = "true" \/ enabled = "1"

(* initRedis: the client afterwards.  Nothing is done unless the flag is on; then a
   client is created (redis.go closes the one there was) and pinged, and dropped again
   when the ping fails *)
initRedis(draft, enabled, client, pingOk) ==
    IF ~getCacheEnabled(draft, enabled) THEN client
    ELSE IF pingOk THEN "up" ELSE "nil"

BootStep ==
    UNCHANGED <<rateVars, shutdownVars, timeVars, raceVars, payVars, bodyVars, mwDraft, hDraft, cache, cacheWrites,
                req, receiptStore, expiryTasks, stored, nextReceiptId, receiptTTL, cacheTTL,
                cacheCalls, signing, now, lookups, keyed>>

(* os.Setenv / t.Setenv("CACHE_ENABLED", v) *)
Setenv(v) ==
    /\ v # cacheEnabledEnv
    /\ cacheEnabledEnv' = v
    /\ UNCHANGED <<redisDraft, enabledCall, redisInit, redisClient>>
    /\ BootStep

GetCacheEnabled ==
    /\ enabledCall' = <<[env |-> cacheEnabledEnv,
                         result |-> getCacheEnabled(redisDraft, cacheEnabledEnv)]>>
    /\ UNCHANGED <<cacheEnabledEnv, redisDraft, redisInit, redisClient>>
    /\ BootStep

InitRedis(pingOk) ==
    /\ redisClient' = initRedis(redisDraft, cacheEnabledEnv, redisClient, pingOk)
    /\ redisInit' = <<[env |-> cacheEnabledEnv, pingOk |-> pingOk, before |-> redisClient,
                       after |-> redisClient',
                       created |-> getCacheEnabled(redisDraft, cacheEnabledEnv)]>>
    /\ UNCHANGED <<cacheEnabledEnv, redisDraft, enabledCall>>
    /\ BootStep

InitBoot ==
    /\ mwDraft = "cache.go"
    /\ hDraft = "cache_test.go:512"
    /\ redisClient = "nil"
    /\ cache = <<>>
    /\ cacheWrites = {}
    /\ req = [r \in Reqs |-> NewRequest]
    /\ receiptStore = <<>>
    /\ expiryTasks = {}
    /\ stored = {}
    /\ nextReceiptId = 0
    /\ receiptTTL = MaxTTL
    /\ cacheTTL = MaxTTL
    /\ cacheCalls = {}
    /\ signing = <<>>
    /\ RateIdle /\ ShutdownIdle /\ TimeIdle /\ RaceIdle /\ PayIdle /\ BodyIdle
    /\ cacheEnabledEnv \in EnabledValues
    /\ redisDraft \in RedisDrafts
    /\ enabledCall = <<>>
    /\ redisInit = <<>>
    /\ now = 0
    /\ lookups = <<>>
    /\ keyed = <<>>

NextBoot ==
    \/ \E v \in EnabledValues : Setenv(v)
    \/ GetCacheEnabled
    \/ \E pingOk \in BOOLEAN : InitRedis(pingOk)

SpecBoot == InitBoot /\ [][NextBoot]_vars

(* ---- the payment context sent to the verifier (handleSummarize, step 2) ---- *)
(* the environment: each setting unset ("") or set; CHAIN_ID may be set to something
   that is not a number *)
PayEnvs ==
    [recipient : {"", "0xServer"}, amount : {"", "0.002"}, chain : {"", "10", "base"}]

getRecipientAddress(env) ==
    IF env.recipient = "" THEN "0x2cAF48b4BA1C58721a85dFADa5aC01C2DFa62219" ELSE env.recipient

getPaymentAmount(env) == IF env.amount = "" THEN "0.001" ELSE env.amount

(* strconv.Atoi of the settings that occur *)
Atoi(str) == IF str = "10" THEN [err |-> FALSE, n |-> 10] ELSE [err |-> TRUE, n |-> 0]

getChainID(env) ==
    IF env.chain = "" THEN 8453
    ELSE IF Atoi(env.chain).err THEN 8453 ELSE Atoi(env.chain).n

(* what a client may put into a request besides the two payment headers: payment
   terms of its own choosing, in the JSON body or in further headers *)
NoTerms == [recipient |-> "", token |-> "", amount |-> "", chainId |-> 0]
ClientTerms == [recipient |-> "0xClient", token |-> "FREE", amount |-> "0", chainId |-> 1]
PayTexts == {"abc", "abd"}
PayNonces == {"n1", "n2"}
PaySigs == {"0xsig"}

PaymentContext(recipient, token, amount, nonce, chainId) ==
    [Recipient |-> recipient, Token |-> token, Amount |-> amount, Nonce |-> nonce,
     ChainID |-> chainId]
NoVerifyRequest == [Context |-> PaymentContext("", "", "", "", 0), Signature |-> ""]

(* a context that takes the terms a client names in its headers *)
VerifyRequestOfClientTerms(env, signature, nonce, headerTerms, bodyTerms) ==
    IF headerTerms = NoTerms
    THEN [Context |-> PaymentContext(getRecipientAddress(env), "USDC", getPaymentAmount(env),
                                     nonce, getChainID(env)),
          Signature |-> signature]
    ELSE [Context |-> PaymentContext(headerTerms.recipient, headerTerms.token,
                                     headerTerms.amount, nonce, headerTerms.chainId),
          Signature |-> signature]

(* the VerifyRequest of handleSummarize; part_003:213-225, cache_test.go:527-539 and
   part_002:103-112 build it alike *)
VerifyRequestOf(env, signature, nonce, headerTerms, bodyTerms) ==
    [Context |-> PaymentContext(getRecipientAddress(env), "USDC", getPaymentAmount(env),
                                nonce, getChainID(env)),
     Signature |-> signature]

(* one request to the paid route, up to the call of the verifier: without both
   headers it is answered 402 and nothing is sent *)
Pay(signature, nonce, text, headerTerms, bodyTerms) ==
    /\ Len(verifyCalls) < MaxPays
    /\ verifyCalls' = Append(verifyCalls,
          [signature |-> signature, nonce |-> nonce, text |-> text,
           headerTerms |-> headerTerms, bodyTerms |-> bodyTerms,
           status |-> IF signature = "" \/ nonce = "" THEN 402 ELSE 0,
           sent |-> IF signature = "" \/ nonce = "" THEN NoVerifyRequest
                    ELSE VerifyRequestOf(payEnv, signature, nonce, headerTerms, bodyTerms)])
    /\ UNCHANGED <<payEnv, rateVars, shutdownVars, timeVars, raceVars, bootVars, bodyVars, mwDraft, hDraft,
                   redisClient, cache, cacheWrites, req, receiptStore, expiryTasks, stored,
                   nextReceiptId, receiptTTL, cacheTTL, cacheCalls, signing, now, lookups, keyed>>

InitPay ==
    /\ mwDraft = "cache.go"
    /\ hDraft = "part_003:178"
    /\ redisClient = "nil"
    /\ cache = <<>>
    /\ cacheWrites = {}
    /\ req = [r \in Reqs |-> NewRequest]
    /\ receiptStore = <<>>
    /\ expiryTasks = {}
    /\ stored = {}
    /\ nextReceiptId = 0
    /\ receiptTTL = MaxTTL
    /\ cacheTTL = MaxTTL
    /\ cacheCalls = {}
    /\ signing = <<>>
    /\ RateIdle /\ ShutdownIdle /\ TimeIdle /\ RaceIdle /\ BootIdle /\ BodyIdle
    /\ payEnv \in PayEnvs
    /\ verifyCalls = <<>>
    /\ now = 0
    /\ lookups = <<>>
    /\ keyed = <<>>

NextPay ==
    \E signature \in PaySigs \cup {""}, nonce \in PayNonces \cup {""}, text \in PayTexts,
       headerTerms \in {NoTerms, ClientTerms}, bodyTerms \in {NoTerms, ClientTerms} :
        Pay(signature, nonce, text, headerTerms, bodyTerms)

SpecPay == InitPay /\ [][NextPay]_vars

(* ---- the request body through CacheMiddleware (io.ReadAll and the restore) ---- *)
(* a body as the bytes the client sends; of these, a JSON document and one that is
   not.  The connection delivers all of them, or breaks after some *)
JsonBytes == <<"{", "t", "}">>
JunkBytes == <<"x", "y">>
WireBodies == {JsonBytes, JunkBytes}
JsonOk(bytes) == bytes = JsonBytes

IdleWire ==
    [pc |-> "idle", sig |-> "", nonce |-> "", sent |-> <<>>, arrives |-> 0, large |-> FALSE,
     pos |-> 0, body |-> "stream", buffer |-> <<>>, status |-> 0, got |-> <<>>, gotErr |-> FALSE]

(* io.ReadAll(c.Request.Body): everything that is left, and an error when the
   connection broke before the end; a restored body is a buffer that reads in full *)
ReadAll(w) ==
    IF w.body = "buffer" THEN [bytes |-> w.buffer, err |-> FALSE, pos |-> w.pos]
    ELSE [bytes |-> SubSeq(w.sent, w.pos + 1, w.arrives), err |-> w.arrives < Len(w.sent),
          pos |-> w.arrives]

(* CacheMiddleware up to c.Next(): which requests it reads, and what it leaves in
   c.Request.Body.  cache.go wraps the body in a MaxBytesReader and answers 413 for a
   body over the limit; a failed read is passed on as it is, except in
   cache_middleware.go:167, which drops the error and restores what it has; a hit is
   answered by the drafts that look the key up *)
MwBody(draft, w, hit) ==
    LET rd == ReadAll(w)
        read == [w EXCEPT !.pos = rd.pos]
        restored == [read EXCEPT !.body = "buffer", !.buffer = rd.bytes]
    IN  IF redisClient = "nil" THEN [w EXCEPT !.pc = "handler"]
        ELSE IF draft = "cache.go" /\ (w.sig = "" \/ w.nonce = "") THEN [w EXCEPT !.pc = "handler"]
        ELSE IF draft \in {"cache_middleware.go:167", "part_001"} /\ w.sig = ""
        THEN [w EXCEPT !.pc = "handler"]
        ELSE IF draft = "cache.go" /\ w.large
        THEN [read EXCEPT !.pc = "answered", !.status = 413]
        ELSE IF rd.err /\ draft # "cache_middleware.go:167" THEN [read EXCEPT !.pc = "handler"]
        ELSE IF ~JsonOk(rd.bytes) THEN [restored EXCEPT !.pc = "handler"]
        ELSE IF hit /\ MwLooksUp(draft) THEN [restored EXCEPT !.pc = "answered", !.status = 200]
        ELSE [restored EXCEPT !.pc = "handler"]

WireStep ==
    UNCHANGED <<rateVars, shutdownVars, timeVars, raceVars, bootVars, payVars, mwDraft, hDraft,
                redisClient, cache, cacheWrites, req, receiptStore, expiryTasks, stored,
                nextReceiptId, receiptTTL, cacheTTL, cacheCalls, signing, now, lookups, keyed>>

(* a request with its headers; its body is on the way *)
BArrive(sig, nonce, sent, arrives, large) ==
    /\ wire.pc = "idle"
    /\ wire' = [IdleWire EXCEPT !.pc = "middleware", !.sig = sig, !.nonce = nonce,
                                !.sent = sent, !.arrives = arrives, !.large = large]
    /\ WireStep

BMiddleware(hit) ==
    /\ wire.pc = "middleware"
    /\ wire' = MwBody(mwDraft, wire, hit)
    /\ WireStep

(* handleSummarize, after the verifier: c.BindJSON reads c.Request.Body *)
BHandler ==
    /\ wire.pc = "handler"
    /\ LET rd == ReadAll(wire)
       IN  wire' = [wire EXCEPT !.pc = "done", !.pos = rd.pos, !.got = rd.bytes,
                                !.gotErr = rd.err,
                                !.status = IF rd.err \/ ~JsonOk(rd.bytes) THEN 400 ELSE 0]
    /\ WireStep

InitBody ==
    /\ mwDraft \in MwDrafts
    /\ hDraft = "part_003:178"
    /\ redisClient \in {"nil", "up"}
    /\ redisClient = "nil" => mwDraft = "cache.go"
    /\ cache = <<>>
    /\ cacheWrites = {}
    /\ req = [r \in Reqs |-> NewRequest]
    /\ receiptStore = <<>>
    /\ expiryTasks = {}
    /\ stored = {}
    /\ nextReceiptId = 0
    /\ receiptTTL = MaxTTL
    /\ cacheTTL = MaxTTL
    /\ cacheCalls = {}
    /\ signing = <<>>
    /\ RateIdle /\ ShutdownIdle /\ TimeIdle /\ RaceIdle /\ BootIdle /\ PayIdle
    /\ wire = IdleWire
    /\ now = 0
    /\ lookups = <<>>
    /\ keyed = <<>>

NextBody ==
    \/ \E sig \in {"", "0xsig"}, nonce \in {"", "n1"}, sent \in WireBodies, large \in BOOLEAN :
          \E arrives \in 0..Len(sent) : BArrive(sig, nonce, sent, arrives, large)
    \/ \E hit \in BOOLEAN : BMiddleware(hit)
    \/ BHandler

SpecBody == InitBody /\ [][NextBody]_vars

(* ==== properties ==== *)
Events(r) == {req[r].log[i] : i \in 1..Len(req[r].log)}
Responses(r) == {req[r].resp[i] : i \in 1..Len(req[r].resp)}
TextOf(q) == Unmarshal(q.body).Text

(* C1: a response carries a summarization result only if the verifier answered
   "valid" for this request's signature and nonce; a request whose signature the
   verifier rejects ends in exactly one 403 without a result, whatever the cache
   holds. *)
C1_ResultOnlyForVerifiedPayment ==
    \A r \in Reqs :
        /\ \A p \in Responses(r) : p.result # NoResult => req[r].verify = "valid"
        /\ (req[r].pc = "done" /\ req[r].verify = "invalid") => req[r].resp = <<Err(403)>>

(* C2: a request without a signature or without a nonce is answered 402 with a new
   payment challenge, and neither the verifier, the cache nor the backend is
   called for it. *)
C2_MissingHeaderGets402 ==
    \A r \in Reqs :
        (req[r].pc # "idle" /\ (req[r].sig = NoHeader \/ req[r].nonce = NoHeader)) =>
            /\ req[r].log = <<>>
            /\ req[r].pc = "done" =>
                  req[r].resp = <<Response(402, NoResult, NoReceipt, FALSE,
                                           createPaymentContext(r))>>

(* C3: the cache is read for a request only after the verifier has accepted that
   request's payment. *)
C3_GetOnlyAfterVerification ==
    \A r \in Reqs : \A i \in 1..Len(req[r].log) :
        req[r].log[i] = "get" => \E j \in 1..(i - 1) : req[r].log[j] = "verified"

(* C4: a 200 response whose result came from the cache has had receipt issuance
   attempted for it, and a receipt issued for it is a new one, with the id of no
   other request's receipt. *)
C4_CacheHitIssuesReceipt ==
    \A r \in Reqs : \A p \in Responses(r) :
        (p.status = 200 /\ req[r].cached # NoResult /\ p.result = req[r].cached) =>
            /\ "issue" \in Events(r)
            /\ p.receipt = req[r].rcpt
            /\ \A o \in Reqs \ {r} :
                  p.receipt # NoReceipt => req[o].rcpt.receipt.id # p.receipt.receipt.id

(* C5: the cache key is a function of the request's text alone: two requests with
   the same text have the same key whatever their nonce, signature and body
   layout, and two requests with different texts have different keys. Both drafts
   of getCacheKey, the full digest and its 16-character prefix, are covered. *)
C5_KeyIsFunctionOfText ==
    \A i \in 1..Len(keyed) :
        LET k == keyed[i]
        IN  /\ (TextOf(k.a) = TextOf(k.b)) <=> (k.ka = k.kb)
            /\ (TextOf(k.a) = TextOf(k.b)) <=> (k.sa = k.sb)

C5_Witness ==
    \E i \in 1..Len(keyed) :
        LET k == keyed[i]
        IN  /\ k.a.nonce # k.b.nonce
            /\ k.a.sig # k.b.sig
            /\ k.a.body # k.b.body
            /\ TextOf(k.a) = TextOf(k.b)
            /\ k.ka = k.kb
            /\ Len(k.ka) = 65


(* C6: every 200 response that carries a result has had receipt issuance attempted
   for it; when issuance fails the request is still answered 200 with the result,
   without a receipt and without the receipt header. *)
C6_IssuanceAttemptedOnSuccess ==
    \A r \in Reqs :
        /\ \A p \in Responses(r) :
              (p.status = 200 /\ p.result # NoResult) => "issue" \in Events(r)
        /\ (req[r].pc = "done" /\ "issue" \in Events(r) /\ req[r].rcpt = NoReceipt) =>
              /\ Len(req[r].resp) = 1
              /\ req[r].resp[1].status = 200
              /\ req[r].resp[1].result # NoResult
              /\ req[r].resp[1].receipt = NoReceipt
              /\ req[r].resp[1].header = NoHeader

(* C7: when issuance succeeds, the 200 response carries the request's SignedReceipt
   in its body and the same receipt, JSON then base64, in X-402-Receipt, and
   storeReceipt has put that receipt into the store before the response is
   written. *)
C7_ReceiptInBodyHeaderAndStore ==
    \A r \in Reqs :
        /\ \A p \in Responses(r) :
              (p.status = 200 /\ p.receipt # NoReceipt) =>
                  /\ p.receipt = req[r].rcpt
                  /\ p.header # NoHeader
                  /\ JsonUnmarshal(Base64Decode(p.header)) = p.receipt
                  /\ \E s \in stored : s.receipt = p.receipt
                  /\ getReceipt(p.receipt.receipt.id) =
                        [exists |-> TRUE, receipt |-> p.receipt]
        /\ (req[r].pc = "done" /\ req[r].rcpt # NoReceipt) =>
              \E p \in Responses(r) : p.status = 200 /\ p.receipt = req[r].rcpt

C7_Witness ==
    \E r \in Reqs :
        /\ req[r].pc = "done"
        /\ req[r].rcpt # NoReceipt
        /\ \E p \in Responses(r) : p.status = 200 /\ p.receipt = req[r].rcpt


(* C8: with a receipt TTL of T, a receipt stored at time t is found unchanged at
   every time before t + T and is not found at any time after t + T, however
   stores, lookups and the cleanup goroutines interleave. *)
C8_ReceiptLivesForTTL ==
    \A s \in stored :
        LET id == s.receipt.receipt.id
        IN  /\ now < s.at + receiptTTL =>
                  getReceipt(id) = [exists |-> TRUE, receipt |-> s.receipt]
            /\ now > s.at + SleepTicks(receiptTTL) => ~getReceipt(id).exists

C8_Witness ==
    \E s \in stored : \E i \in 1..Len(lookups) : \E j \in 1..Len(lookups) :
        /\ receiptTTL > 0
        /\ lookups[i].id = s.receipt.receipt.id
        /\ lookups[i].at > s.at
        /\ lookups[i].at < s.at + receiptTTL
        /\ lookups[i].status = 200
        /\ lookups[j].id = s.receipt.receipt.id
        /\ lookups[j].at > s.at + receiptTTL
        /\ lookups[j].status = 404
        /\ ~getReceipt(s.receipt.receipt.id).exists


(* C9: a lookup answers 200 with the receipt, signature and server public key
   exactly as storeReceipt stored them when the id is in the store, and 404
   otherwise; a lookup changes nothing in the store, and no step changes a
   receipt that stays in the store. *)
C9_LookupIsReadOnly ==
    [][/\ \A id \in (DOMAIN receiptStore) \cap (DOMAIN receiptStore') :
             receiptStore'[id] = receiptStore[id]
       /\ lookups' # lookups =>
             /\ receiptStore' = receiptStore
             /\ expiryTasks' = expiryTasks
             /\ LET a == lookups'[Len(lookups')]
                IN  IF a.id \in DOMAIN receiptStore
                    THEN /\ a.status = 200
                         /\ \E s \in stored :
                               /\ s.receipt.receipt.id = a.id
                               /\ s.receipt.receipt = a.receipt
                               /\ s.receipt.signature = a.signature
                               /\ s.receipt.server_public_key = a.server_public_key
                    ELSE /\ a.status = 404
                         /\ a.receipt = NoReceipt.receipt]_vars

C9_Witness ==
    \E i \in 1..Len(lookups) : \E j \in 1..Len(lookups) :
        /\ lookups[i].status = 200
        /\ lookups[i].receipt.id = lookups[i].id
        /\ lookups[j].status = 404
        /\ lookups[j].id \in {s.receipt.receipt.id : s \in stored}


(* C10: receipt ids are unique: two receipts issued for two requests, the second
   of them served from the cache included, have different ids, so that storing
   one never replaces another in the store. *)
C10_ReceiptIdsUnique ==
    /\ \A r \in Reqs : \A o \in Reqs \ {r} :
          (req[r].rcpt # NoReceipt /\ req[o].rcpt # NoReceipt) =>
              req[r].rcpt.receipt.id # req[o].rcpt.receipt.id
    /\ \A s \in stored : \A u \in stored :
          s.receipt.receipt.id = u.receipt.receipt.id => s = u
    /\ \A s \in stored :
          getReceipt(s.receipt.receipt.id) = [exists |-> TRUE, receipt |-> s.receipt]

C10_Witness ==
    \E r \in Reqs : \E o \in Reqs \ {r} :
        /\ req[r].pc = "done" /\ req[o].pc = "done"
        /\ req[r].rcpt # NoReceipt /\ req[o].rcpt # NoReceipt
        /\ TextOf(req[r]) = TextOf(req[o])
        /\ req[r].cached = NoResult
        /\ req[o].cached # NoResult
        /\ Cardinality(DOMAIN receiptStore) = 2

(* C11: the payment details of every issued receipt are those of the request it
   is issued for: the payer is the address the verifier recovered from that
   request's signature and the nonce is that request's nonce header, on the miss
   path and on the cache-hit path; every stored receipt belongs to one request. *)
C11_ReceiptPaymentFromRequest ==
    /\ \A r \in Reqs :
          req[r].rcpt # NoReceipt =>
              /\ req[r].verify = "valid"
              /\ req[r].rcpt.receipt.payer = RecoveredAddress(req[r].sig)
              /\ req[r].rcpt.receipt.nonce = req[r].nonce
    /\ \A s \in stored : \E r \in Reqs : req[r].rcpt = s.receipt

C11_Witness ==
    \E r \in Reqs : \E o \in Reqs \ {r} :
        /\ req[r].rcpt # NoReceipt /\ req[o].rcpt # NoReceipt
        /\ req[r].cached = NoResult
        /\ req[o].cached # NoResult
        /\ req[o].pc = "done"
        /\ req[o].rcpt.receipt.payer # req[r].rcpt.receipt.payer
        /\ req[o].rcpt.receipt.nonce = req[o].nonce

(* C12: in every issued receipt request_hash is the digest of the exact body bytes
   the client sent and response_hash the digest of the result returned, so that
   one request body has one request_hash on the backend path and the cache path. *)
C12_HashesOfExactBytes ==
    \A r \in Reqs :
        req[r].rcpt # NoReceipt =>
            /\ req[r].rcpt.receipt.request_hash = hashData(req[r].body)
            /\ \A p \in Responses(r) :
                  p.status = 200 => req[r].rcpt.receipt.response_hash = hashData(p.result)

(* C14: a verifier call that exceeds its deadline ends the request with 504 and
   never 500; an unreachable verifier ends it with 500; on the handler path and
   on the cache-hit path. *)
C14_VerifierTimeoutIs504 ==
    \A r \in Reqs :
        req[r].pc = "done" =>
            /\ req[r].verify = "timeout" => req[r].resp = <<Err(504)>>
            /\ req[r].verify = "unreachable" => req[r].resp = <<Err(500)>>

(* C15: a verifier reply that cannot be decoded ends the request with 500: it is
   never taken for a valid signature and never answered 403. *)
C15_MalformedReplyIs500 ==
    \A r \in Reqs :
        req[r].verify \in {"malformed", "malformed_partial"} =>
            /\ req[r].pc = "done"
            /\ req[r].resp = <<Err(500)>>
            /\ "backend" \notin Events(r)

(* C16: a failed backend call ends the request with exactly one error status, 504
   for a deadline timeout and 500 for any other failure. *)
C16_BackendFailureStatus ==
    \A r \in Reqs :
        req[r].pc = "done" =>
            /\ req[r].backend = "timeout" => req[r].resp = <<Err(504)>>
            /\ req[r].backend = "fail" => req[r].resp = <<Err(500)>>

(* C17: on a cache hit for a verified request the backend is not called for that
   request, and the result of its 200 response is the result held in the cache entry
   under the request's content key: the hit takes the entry of that key when it looks
   up, and the response carries what the hit took. *)
C17_HitServesCachedResult ==
    /\ [](\A r \in Reqs :
            (req[r].cached # NoResult /\ req[r].verify = "valid") =>
               /\ req[r].backend = "none"
               /\ "backend" \notin Events(r)
               /\ \A i \in 1..Len(req[r].resp) :
                     req[r].resp[i].status = 200 => req[r].resp[i].result = req[r].cached)
    /\ [][\A r \in Reqs :
            (req[r].cached = NoResult /\ req'[r].cached # NoResult) =>
               LET key == KeyOf[Unmarshal(req'[r].body).Text]
               IN  /\ req'[r].key = key
                   /\ key \in DOMAIN cache
                   /\ req'[r].cached = JsonUnmarshal(cache[key].val).Result]_vars

C17_Witness ==
    \E r \in Reqs :
        /\ req[r].cached # NoResult
        /\ req[r].verify = "valid"
        /\ req[r].pc = "done"
        /\ req[r].backend = "none"
        /\ Len(req[r].resp) = 1
        /\ req[r].resp[1].status = 200
        /\ req[r].resp[1].result = req[r].cached
        /\ req[r].resp[1].result = JsonUnmarshal(cache[req[r].key].val).Result

(* the store did not serve request r: the client is nil since startup, or the Get of
   r's lookup failed at call time *)
Unavailable(q) == redisClient = "nil" \/ \E i \in 1..Len(q.log) : q.log[i] = "get_err"

(* status of each response of a request and where its result came from: the backend
   answers each call with a summary of its own, so results are compared by origin *)
Outcome(q) ==
    [i \in 1..Len(q.resp) |->
        <<q.resp[i].status,
          IF q.resp[i].result = NoResult THEN "none"
          ELSE IF q.resp[i].result = q.summary THEN "backend" ELSE "other">>]

(* C18: when the cache store is unavailable (nil client, or Get/Set failing at call
   time) the lookup is a miss, the store is left as it was, and the request gets the
   status and result of the handler alone: entering the middleware leaves the request
   where the handler without a middleware would, a store attempt never touches a
   request, and a request whose lookup failed ends with the status and result of a
   request with the same input and the same verifier and backend replies whose lookup
   did not fail (a result being the one the backend gave that request). *)
C18_UnavailableCacheDegrades ==
    /\ [](/\ redisClient = "nil" => DOMAIN cache = {}
          /\ \A r \in Reqs : Unavailable(req[r]) =>
                /\ req[r].cached = NoResult
                /\ \A i \in 1..Len(req[r].resp) : ~req[r].resp[i].cached
          /\ \A r1, r2 \in Reqs :
                (/\ req[r1].pc = "done" /\ req[r2].pc = "done"
                 /\ Unavailable(req[r1]) /\ req[r2].cached = NoResult
                 /\ (req[r1].sig = NoHeader) = (req[r2].sig = NoHeader)
                 /\ (req[r1].nonce = NoHeader) = (req[r2].nonce = NoHeader)
                 /\ req[r1].body = req[r2].body
                 /\ req[r1].verify = req[r2].verify
                 /\ req[r1].backend = req[r2].backend)
                => Outcome(req[r1]) = Outcome(req[r2]))
    /\ [][/\ redisClient = "nil" => cache' = cache
          /\ cacheWrites' # cacheWrites /\ cacheWrites' \subseteq cacheWrites => req' = req
          /\ \A r \in Reqs :
                (req[r].pc = "idle" /\ req'[r].pc # "idle" /\ Unavailable(req'[r])) =>
                   LET h == HPayment(r, [NewRequest EXCEPT !.sig = req'[r].sig,
                                                           !.nonce = req'[r].nonce,
                                                           !.body = req'[r].body])
                   IN  /\ req'[r].pc = h.pc
                       /\ req'[r].resp = h.resp
                       /\ req'[r].cached = NoResult]_vars

(* a request whose Get failed while the store held its key was served by the backend,
   and the Set of its result failed too, leaving the entry as it was *)
C18_Witness ==
    \E r \in Reqs :
        /\ redisClient = "up"
        /\ "get_err" \in Events(r)
        /\ req[r].key \in DOMAIN cache
        /\ req[r].pc = "done"
        /\ req[r].backend = "ok"
        /\ Len(req[r].resp) = 1
        /\ req[r].resp[1].status = 200
        /\ req[r].resp[1].result = req[r].summary
        /\ \A w \in cacheWrites : w.by # r
        /\ JsonUnmarshal(cache[req[r].key].val).Result # req[r].summary

(* request r went the miss path and completed with 200 and a result *)
MissCompleted(q) == q.pc = "done" /\ q.wrapped /\ q.cached = NoResult /\ Cacheable(q)

(* the result of the request's first response *)
ResultOf(q) == IF Len(q.resp) = 0 THEN NoResult ELSE q.resp[1].result

(* the cache holds result under the content key of text *)
Holds(text, result) ==
    /\ text \in DOMAIN KeyOf
    /\ result # NoResult
    /\ KeyOf[text] \in DOMAIN cache
    /\ ~Expired(cache[KeyOf[text]])
    /\ JsonUnmarshal(cache[KeyOf[text]].val).Result = result

(* the store started for request r has not run yet *)
StorePending(r) == \E w \in cacheWrites : w.by = r

(* C19: with the store available, a request that completes on the miss path with 200
   and a result leaves a store of that result under the content key of its text, and
   that store, still to run when the request has finished, eventually puts the result
   in the cache (where a later store for the same text may replace it); and a request
   entering while the cache holds an entry for its text takes that entry as a hit,
   whatever its signature and nonce (for the middlewares that look the cache up
   themselves). *)
C19_MissResultEventuallyCached ==
    /\ \A r \in Reqs :
          (MissCompleted(req[r]) /\ StorePending(r))
             ~> Holds(TextOf(req[r]), ResultOf(req[r]))
    /\ [][\A r \in Reqs :
            (~MissCompleted(req[r]) /\ MissCompleted(req'[r])) =>
               [key |-> KeyOf[TextOf(req'[r])], result |-> ResultOf(req'[r]), by |-> r]
                  \in cacheWrites']_vars
    /\ [][\A r \in Reqs :
            LET q == req'[r]
            IN  (/\ req[r].pc = "idle" /\ q.pc # "idle"
                 /\ MwLooksUp(mwDraft) /\ ~MwBypass(mwDraft, q)
                 /\ KeyOf[TextOf(q)] \in DOMAIN cache
                 /\ ~Expired(cache[KeyOf[TextOf(q)]]))
                => Holds(TextOf(q), q.cached)]_vars

(* one request missed and completed, its result was stored after it had finished, and
   a second request with the same text and its own signature and nonce hit on it *)
C19_Witness ==
    \E r1, r2 \in Reqs :
        /\ MissCompleted(req[r1])
        /\ \A w \in cacheWrites : w.by # r1
        /\ Holds(TextOf(req[r1]), ResultOf(req[r1]))
        /\ req[r2].cached = ResultOf(req[r1])
        /\ TextOf(req[r2]) = TextOf(req[r1])
        /\ req[r2].sig # req[r1].sig
        /\ req[r2].nonce # req[r1].nonce
        /\ req[r2].pc = "done"

(* the time to live of the entry written by set call s is over at time t *)
Elapsed(s, t) == s.ttl > 0 /\ t >= s.at + s.ttl

(* C20: cache store round trip. Every getFromCache(key) made after a completed
   storeInCache(key, result), before the time to live of that entry has elapsed,
   returns an entry with Result = result and a non-zero CachedAt (the time of the
   store); made after it has elapsed, or for a key never stored, it returns a miss
   (error and no entry). *)
C20_CacheRoundTrip ==
    \A g \in GetCalls :
        LET sets == {s \in SetCalls : s.key = g.key}
        IN  IF \E s \in sets : ~Elapsed(s, g.at)
            THEN \A s \in sets :
                    /\ ~g.err
                    /\ g.result = s.result
                    /\ g.CachedAt # 0
                    /\ g.CachedAt = s.CachedAt
            ELSE g.err /\ g.result = NoResult /\ g.CachedAt = 0

(* two keys stored: a later lookup of one hit on the stored result before its time to
   live was over, a lookup of the other missed after it was over *)
C20_Witness ==
    \E g1, g2 \in GetCalls, s1, s2 \in SetCalls :
        /\ s1.key = g1.key /\ s2.key = g2.key /\ g1.key # g2.key
        /\ g1.at > s1.at /\ s1.ttl > 0
        /\ ~g1.err /\ g1.result = s1.result
        /\ g2.at >= s2.at + s2.ttl /\ s2.ttl > 0
        /\ g2.err

(* C13: for every receipt the gateway signs, serializing it twice gives the same
   bytes; verifying the signed receipt as received (recover the public key from the
   hash of its serialization and the 65-byte signature, compare with the embedded
   server public key) succeeds; and verification fails once any single field of the
   receipt has been changed. *)
C13_SignedReceiptVerifies ==
    /\ signing.stage # "idle" => signing.first = signing.second
    /\ signing.stage = "verified" =>
          /\ signing.got.signature.len = 65
          /\ signing.changed = "none" => signing.valid
          /\ signing.changed # "none" => ~signing.valid

(* the tier a rate-limit key is counted in, and the ticks one token takes to refill *)
TierOfKey(k) == IF k = <<"ip:">> \o ClientIP THEN "anonymous" ELSE "standard"
CapacityOf(k) == limiters[TierOfKey(k)].capacity
RateOf(k) == limiters[TierOfKey(k)].rate
WholeRefill(k) == 60 % RateOf(k) = 0
RefillTicks(k) == 60 \div RateOf(k)
BurstAt(T, n) == Len(T) >= n /\ T[n].at = T[1].at

(* C21: for one key with capacity C and rate R per minute, the first C+1 requests
   against a new bucket, made at one instant, get C allows and then a deny; a request
   made just when one token has refilled is allowed, and the next one at that instant
   is denied. *)
C21_BurstThenOneRefill ==
    \A k \in DOMAIN admitted :
        LET T == admitted[k]
            C == CapacityOf(k)
        IN  /\ \A i \in 1..Len(T) :
                  (i <= C + 1 /\ T[i].at = T[1].at) => (T[i].allowed <=> i <= C)
            /\ (BurstAt(T, C + 1) /\ WholeRefill(k) /\ Len(T) >= C + 2
                  /\ T[C + 2].at = T[1].at + RefillTicks(k))
               => /\ T[C + 2].allowed
                  /\ (Len(T) >= C + 3 /\ T[C + 3].at = T[C + 2].at) => ~T[C + 3].allowed

C21_Witness ==
    \E k \in DOMAIN admitted :
        LET T == admitted[k]
            C == CapacityOf(k)
        IN  /\ BurstAt(T, C + 1) /\ WholeRefill(k) /\ Len(T) >= C + 3
            /\ T[C + 2].at = T[1].at + RefillTicks(k)
            /\ T[C + 3].at = T[C + 2].at
            /\ T[C].allowed /\ ~T[C + 1].allowed /\ T[C + 2].allowed /\ ~T[C + 3].allowed

(* the requests of the address that passed the rate check between s and t *)
RECURSIVE PassedIn(_, _, _)
PassedIn(keys, s, t) ==
    IF keys = {} THEN 0
    ELSE LET k == CHOOSE j \in keys : TRUE
             T == admitted[k]
         IN  Cardinality({i \in 1..Len(T) : T[i].allowed /\ s <= T[i].at /\ T[i].at <= t})
             + PassedIn(keys \ {k}, s, t)

LargestOf(S) == CHOOSE x \in S : \A y \in S : y <= x

(* C22: whatever signature and nonce headers the caller sends, the requests of one
   address that pass the rate check in an interval number at most one bucket's
   capacity plus what it refills in that interval (the largest capacity and the
   fastest rate of any tier are granted here). *)
C22_ForgedNoncesStayLimited ==
    limiters # NoLimiters =>
        \A s \in 0..MaxTime, t \in 0..MaxTime :
            s <= t =>
                PassedIn(DOMAIN admitted, s, t) * 60
                    <= LargestOf({limiters[tier].capacity : tier \in Tiers}) * 60
                       + (t - s) * LargestOf({limiters[tier].rate : tier \in Tiers})

(* C24: a health request is answered 200 whatever the caller did before: it is never
   denied with 429, takes no rate-limit token, and never gets 402. *)
C24_HealthBypassesRateLimit ==
    (lastAdmission # NoAdmission /\ lastAdmission.path = "/healthz")
        => lastAdmission.status = 200 /\ lastAdmission.took = 0

(* a request on which nothing beyond the rate limiter acted *)
OnlyDenied(r) ==
    /\ req[r].pc = "done"
    /\ req[r].resp = <<Err(429)>>
    /\ req[r].log = <<>>
    /\ req[r].key = NoKey /\ ~req[r].wrapped /\ req[r].cached = NoResult
    /\ req[r].verify = "none" /\ req[r].backend = "none"
    /\ \A w \in cacheWrites : w.by # r

(* C23: a request the rate limiter denies ends with 429 and a retry-after of at least
   1, also when the reset time is not after now, and the chain stops there: no payment
   check, verifier call, cache access or backend call happens for it. *)
C23_DeniedIs429WithRetryHint ==
    /\ (lastAdmission # NoAdmission /\ ~lastAdmission.allowed)
          => /\ lastAdmission.status = 429
             /\ lastAdmission.retryAfter >= 1
             /\ lastAdmission.by \in Reqs => OnlyDenied(lastAdmission.by)
    /\ \A r \in Reqs : Err(429) \in Responses(r) => OnlyDenied(r)

C23_Witness ==
    /\ lastAdmission # NoAdmission /\ ~lastAdmission.allowed
    /\ lastAdmission.by \in Reqs /\ OnlyDenied(lastAdmission.by)
    /\ lastAdmission.at = now
    /\ GetResetTime(limiters[lastAdmission.tier], lastAdmission.key, now) <= Unix(now)
    /\ lastAdmission.retryAfter = 1

(* C25: WaitForInFlightRequests does not return while a request that was inside
   TrackInFlightRequests when the wait began is still inside it, the count of active
   requests covers those requests meanwhile, and the wait does return once the
   requests have finished. *)
C25_WaitCoversInFlightRequests ==
    /\ [](leftInside = {})
    /\ []((waiter = "waiting" /\ \E c \in waitedFor : Inside(c)) => activeRequestsWG > 0)
    /\ (waiter = "waiting") ~> (waiter = "returned")

C25_Witness ==
    /\ waiter = "returned"
    /\ waitedFor # {}
    /\ \A c \in waitedFor : conns[c] = "left"

(* the cache writes a step starts *)
Started == cacheWrites' \ cacheWrites

(* C26: a cache write is started at most once per request: only in the step in which
   the request's handler returns, one write at most, and only when the request took the
   miss path and its single response is a 200 with a result obtained from a successful
   backend call; the write carries that result under the request's key. None is
   started for a response served from the cache, a non-200 response, or a 200 without
   a result. *)
C26_WriteOnlyAfterSuccessfulMiss ==
    [][/\ \A w \in Started :
             LET q == req'[w.by]
             IN  /\ req[w.by].pc # "done" /\ q.pc = "done"
                 /\ q.wrapped /\ q.cached = NoResult
                 /\ Len(q.resp) = 1
                 /\ q.resp[1].status = 200 /\ ~q.resp[1].cached
                 /\ q.resp[1].result # NoResult
                 /\ q.backend = "ok" /\ q.resp[1].result = q.summary
                 /\ w.key = q.key /\ w.result = q.resp[1].result
                 /\ \A v \in Started : v.by = w.by => v = w
       /\ \A r \in Reqs : req[r].pc = "done" => req'[r] = req[r]]_vars

C26_Witness ==
    \E r1, r2 \in Reqs :
        /\ \E w \in cacheWrites : w.by = r1 /\ w.result = req[r1].summary
        /\ req[r1].pc = "done" /\ req[r1].backend = "ok"
        /\ req[r2].pc = "done" /\ req[r2].resp # <<>> /\ req[r2].resp[1].status # 200
        /\ \A w \in cacheWrites : w.by # r2

(* C27: the response of a miss-path request does not wait for the cache: a write is
   pending only for a request whose response is written and whose handler has
   returned, a step of the store (successful or failed) changes no request, and every
   request that reached the route finishes, whether or not any store ever runs. *)
C27_ResponseNeverWaitsOnStore ==
    /\ [](\A w \in cacheWrites : req[w.by].pc = "done" /\ Len(req[w.by].resp) = 1)
    /\ [][cacheWrites' # cacheWrites /\ cacheWrites' \subseteq cacheWrites
             => req' = req]_vars
    /\ \A r \in Reqs : (req[r].pc # "idle") ~> (req[r].pc = "done")

C27_Witness ==
    \E r1, r2 \in Reqs :
        /\ redisClient = "up"
        /\ MissCompleted(req[r1]) /\ ~StorePending(r1)
        /\ req[r1].key \notin DOMAIN cache
        /\ MissCompleted(req[r2]) /\ StorePending(r2)

(* C30: nothing is retried: a request makes at most one verifier call and at most one
   backend call on every path; none of either when the payment headers are missing,
   no backend call on a verifier failure or on a hit served from the cache. *)
C30_NoAutomaticRetry ==
    \A r \in Reqs :
        LET q == req[r]
        IN  /\ VerifierCalls(q) <= 1
            /\ BackendCalls(q) <= 1
            /\ (q.sig = NoHeader \/ q.nonce = NoHeader)
                  => VerifierCalls(q) = 0 /\ BackendCalls(q) = 0
            /\ "verify_failed" \in Events(r) => BackendCalls(q) = 0
            /\ q.cached # NoResult => BackendCalls(q) = 0
            /\ q.verify # "none" => VerifierCalls(q) = 1
            /\ q.backend # "none" => BackendCalls(q) = 1

C30_Witness ==
    \E r1, r2 \in Reqs :
        /\ req[r1].pc = "done" /\ req[r1].verify = "timeout" /\ VerifierCalls(req[r1]) = 1
        /\ req[r2].pc = "done" /\ req[r2].backend \in {"fail", "timeout"}
        /\ VerifierCalls(req[r2]) = 1 /\ BackendCalls(req[r2]) = 1

(* the statuses a timed request was answered with *)
StatusesOf(q) == {q.resp[i].status : i \in 1..Len(q.resp)}

(* C28: the deadline in force for the verifier call is the earliest of the global
   request deadline, the route's deadline and the call's own timeout counted from its
   start, and the one for the backend call is the earlier of the global and the route's
   deadline; no call stays in flight past its deadline, and a response to a timeout
   comes at that deadline, never after the request's outer deadline. *)
C28_EarliestDeadlineWins ==
    \A r \in Reqs :
        LET q == timed[r]
            outer == Min(q.entered + timeouts.request, q.entered + timeouts.ai)
        IN  /\ q.pc # "idle" => q.outer = outer
            /\ q.verifierDeadline # Never
                  => q.verifierDeadline = Min(outer, q.began + timeouts.verifier)
            /\ q.pc \in {"verifying", "backend"} => q.verifierDeadline # Never
            /\ q.pc = "verifying" => q.call = q.verifierDeadline
            /\ q.backendDeadline # Never => q.backendDeadline = outer
            /\ (q.pc = "backend") => q.call = outer
            /\ InFlight(r) => now <= q.call /\ q.call <= outer
            /\ q.outcome = "timeout" => q.at <= outer /\ 504 \in StatusesOf(q)
            /\ q.pc = "done" /\ q.verifierDeadline # Never /\ q.backendDeadline = Never
                  => q.at <= q.verifierDeadline
            /\ q.pc = "done" /\ q.backendDeadline # Never => q.at <= q.backendDeadline

C28_Witness ==
    \E r \in Reqs :
        /\ timeouts.request < timeouts.ai
        /\ timeouts.request < timeouts.verifier
        /\ timed[r].outcome = "timeout"
        /\ timed[r].backendDeadline = Never
        /\ timed[r].at = timed[r].entered + timeouts.request
        /\ timed[r].resp = <<Err(504)>>

(* C29: a request that passed the payment check ends with a response even if the
   verifier or the backend never replies and whether or not the caller disconnects:
   the call in flight is abandoned, and a call ended by its deadline is answered with
   a timeout. *)
C29_SilentCallEndsInTimeout ==
    /\ \A r \in Reqs : InFlight(r) ~> (timed[r].pc = "done")
    /\ [](\A r \in Reqs : timed[r].outcome = "timeout" => 504 \in StatusesOf(timed[r]))

(* ---- C31 ---- *)
TokensInRange(lims) ==
    lims # NoLimiters =>
        \A tier \in Tiers : \A key \in DOMAIN lims[tier].buckets :
            /\ lims[tier].buckets[key].tokens >= 0
            /\ lims[tier].buckets[key].tokens <= lims[tier].capacity * 60
            /\ lims[tier].buckets[key].last <= now

(* what a step may do to the bucket of key in a tier: nothing, drop it, or rewrite it
   in an access to that key at the current time, from the refill for the elapsed time
   capped at the capacity, less at most one token and never below zero *)
BucketStepLazy(tier, key) ==
    LET tb == limiters[tier]
        full == tb.capacity * 60
        had == IF key \in DOMAIN tb.buckets
               THEN Min(full, tb.buckets[key].tokens + (now - tb.buckets[key].last) * tb.rate)
               ELSE full
        after == limiters'[tier].buckets[key]
    IN  \/ key \notin DOMAIN limiters'[tier].buckets
        \/ key \in DOMAIN tb.buckets /\ after = tb.buckets[key]
        \/ /\ now' = now
           /\ lastAdmission'.key = key /\ lastAdmission'.tier = tier /\ lastAdmission'.at = now
           /\ after.last = now
           /\ after.tokens = IF had >= 60 THEN had - 60 ELSE had
           /\ after.tokens >= 0
           /\ lastAdmission'.allowed = (had >= 60)

(* C31: the token count of every bucket stays within [0, capacity]; a bucket changes
   only in an access to its key, by the refill for the elapsed time capped at the
   capacity and at most one token taken, never below zero; the passing of time alone
   changes no bucket. *)
C31_TokensWithinCapacityLazyRefill ==
    /\ [] TokensInRange(limiters)
    /\ [][ limiters # NoLimiters =>
             /\ limiters' # NoLimiters
             /\ \A tier \in Tiers :
                   \A key \in DOMAIN limiters[tier].buckets \cup DOMAIN limiters'[tier].buckets :
                       BucketStepLazy(tier, key)
             /\ now' # now => limiters' = limiters ]_vars

(* a bucket of capacity 2 at 120 a minute, drawn at 0 and again at 2: the refill of
   four tokens was capped at two and one was taken *)
C31_Witness ==
    /\ limiters # NoLimiters
    /\ \E tier \in Tiers : \E key \in DOMAIN limiters[tier].buckets :
          /\ limiters[tier].rate = 120
          /\ limiters[tier].capacity = 2
          /\ key \in DOMAIN admitted
          /\ Len(admitted[key]) = 2
          /\ admitted[key][1].at = 0
          /\ admitted[key][2].at = 2
          /\ admitted[key][2].allowed
          /\ limiters[tier].buckets[key] = [tokens |-> 60, last |-> 2]

(* ---- C32 ---- *)
(* the callers that have called Allow for a key at the instant the race began *)
CalledAtStart(tier, key) ==
    {c \in Racers : /\ racers[c].pc \in {"allowed", "denied", "next", "aborted"}
                    /\ racers[c].tier = tier /\ racers[c].key = key /\ racers[c].at = 0}

WholeTokensAtStart(tier, key) == Refilled(raceStart[tier], key, 0) \div 60

RaceKeys == {<<"ip:">> \o ClientIP, NonceKeyOf[NonceOf(1)]}

(* C32: of the callers that call Allow for one key with no refill in between, exactly
   as many are allowed as the bucket held whole tokens (all of them when there are
   fewer callers than tokens), whatever the order of their steps. *)
C32_ConcurrentAllowIsAtomic ==
    \A tier \in {"anonymous", "standard"} : \A key \in RaceKeys :
        LET called == CalledAtStart(tier, key)
        IN  Cardinality({c \in called : racers[c].allowed})
                = Min(WholeTokensAtStart(tier, key), Cardinality(called))

(* every caller used one key, there were more callers than tokens, and all are through *)
C32_Witness ==
    \E tier \in {"anonymous", "standard"} : \E key \in RaceKeys :
        /\ Cardinality(CalledAtStart(tier, key)) = MaxRacers
        /\ WholeTokensAtStart(tier, key) >= 1
        /\ WholeTokensAtStart(tier, key) < MaxRacers
        /\ \A c \in Racers : racers[c].pc \in {"next", "aborted"}
        /\ \E c \in Racers : racers[c].pc = "aborted"

(* ---- C33 ---- *)
BothHeaders(sig, nonce) == sig # NoHeader /\ nonce # NoHeader

(* C33: for every request the middleware has checked, key and tier follow from the
   presence of the two payment headers alone and agree: both present, the key is the
   nonce-namespaced hash of the nonce and the tier is standard; otherwise the key is
   the ip-namespaced address and the tier is anonymous.  So the anonymous limiter only
   ever holds ip keys, the standard limiter only nonce keys, and the verified limiter
   none. *)
C33_KeyAndTierAgree ==
    /\ \A c \in Racers :
          racers[c].pc \in {"allowed", "denied", "next", "aborted"} =>
              IF BothHeaders(racers[c].sig, racers[c].nonce)
              THEN /\ racers[c].key = NonceKeyOf[racers[c].nonce]
                   /\ racers[c].key[1] = "nonce:" /\ Len(racers[c].key) = 33
                   /\ racers[c].tier = "standard"
              ELSE /\ racers[c].key = <<"ip:">> \o ClientIP
                   /\ racers[c].tier = "anonymous"
    /\ \A key \in DOMAIN limiters["anonymous"].buckets : key[1] = "ip:"
    /\ \A key \in DOMAIN limiters["standard"].buckets : key[1] = "nonce:"
    /\ DOMAIN limiters["verified"].buckets = {}

(* three requests were checked: one with a signature only, one with a nonce only, one
   with both *)
C33_Witness ==
    \E c1, c2, c3 \in Racers :
        /\ \A c \in {c1, c2, c3} : racers[c].pc \in {"next", "aborted"}
        /\ racers[c1].sig # NoHeader /\ racers[c1].nonce = NoHeader
        /\ racers[c2].sig = NoHeader /\ racers[c2].nonce # NoHeader
        /\ BothHeaders(racers[c3].sig, racers[c3].nonce)

(* ---- C34 ---- *)
(* C34: every cache write is made with a positive time to live: CACHE_TTL_SECONDS when
   that is positive, the default of 3600 seconds otherwise; so every entry written
   carries an expiry. *)
C34_CacheWriteTTLPositive ==
    /\ \A c \in SetCalls :
          /\ c.ttl > 0
          /\ c.ttl = IF cacheTTL > 0 THEN cacheTTL ELSE DefaultCacheTTL
    /\ \A key \in DOMAIN cache : cache[key].expires > 0

(* ---- C35 ---- *)
(* C35: getCacheEnabled answers true exactly for the settings "true" and "1", and
   initRedis creates a client exactly when the setting is one of these: with any other
   setting it leaves the client as it was, with one of these the client is up after a
   successful ping and nil after a failed one. *)
C35_EnabledOnlyForTrueOrOne ==
    /\ \A i \in DOMAIN enabledCall :
          enabledCall[i].result = (enabledCall[i].env \in {"true", "1"})
    /\ \A i \in DOMAIN redisInit :
          /\ redisInit[i].created = (redisInit[i].env \in {"true", "1"})
          /\ redisInit[i].after = IF redisInit[i].env \in {"true", "1"}
                                  THEN (IF redisInit[i].pingOk THEN "up" ELSE "nil")
                                  ELSE redisInit[i].before

(* ---- C36 ---- *)
(* C36: a request to the paid endpoint is answered exactly once: while it is being
   handled at most one response has been written, and when the chain has returned
   exactly one has. *)
C36_ExactlyOneResponse ==
    \A r \in Reqs :
        /\ Len(req[r].resp) <= 1
        /\ req[r].pc = "done" => Len(req[r].resp) = 1

(* ---- C37 ---- *)
(* the verifier's reply carried is_valid: true, in a well-formed body or in one that
   has another field of the wrong type *)
VerifierSaidValid(reply) == reply \in {"valid", "malformed_partial"}

(* request r got a 200 carrying result from a successful backend call for its own
   text, after the verifier accepted its signature *)
ProducedBy(r, key, result) ==
    /\ VerifierSaidValid(req[r].verify)
    /\ req[r].backend = "ok"
    /\ Unmarshal(req[r].body).ok
    /\ KeyOf[Unmarshal(req[r].body).Text] = key
    /\ req[r].summary = result
    /\ result = Summary(Unmarshal(req[r].body).Text, r)
    /\ \E i \in DOMAIN req[r].resp :
          req[r].resp[i].status = 200 /\ req[r].resp[i].result = result

(* C37: every entry of the cache, under the key of a text, holds the result of a 200
   response that a successful backend call for that text produced in a request whose
   signature the verifier accepted; also when two requests with the same text miss
   together and both write the entry. *)
C37_CacheHoldsPaidResults ==
    \A key \in DOMAIN cache :
        \E r \in Reqs : ProducedBy(r, key, JsonUnmarshal(cache[key].val).Result)

(* two requests with one text both missed and both wrote; the entry is the result of
   one of them *)
C37_Witness ==
    /\ \A r \in Reqs : req[r].pc = "done" /\ req[r].wrapped /\ req[r].backend = "ok"
    /\ req[1].key = req[2].key
    /\ cacheWrites = {}
    /\ req[1].key \in DOMAIN cache
    /\ JsonUnmarshal(cache[req[1].key].val).Result = req[1].summary

(* ---- C38 ---- *)
ServerTermsOf(c) == <<c.sent.Context.Recipient, c.sent.Context.Token, c.sent.Context.Amount,
                      c.sent.Context.ChainID>>

(* C38: in every request sent to the verifier the recipient, token, amount and chain
   id are the server's configured values, the nonce and the signature are the ones of
   the request's headers; so any two requests are verified against the same recipient,
   token, amount and chain id, whatever their bodies and other headers say. *)
C38_PaymentContextServerControlled ==
    /\ \A i \in DOMAIN verifyCalls :
          verifyCalls[i].status = 0 =>
              /\ ServerTermsOf(verifyCalls[i]) =
                    <<getRecipientAddress(payEnv), "USDC", getPaymentAmount(payEnv),
                      getChainID(payEnv)>>
              /\ verifyCalls[i].sent.Context.Nonce = verifyCalls[i].nonce
              /\ verifyCalls[i].sent.Signature = verifyCalls[i].signature
    /\ \A i, j \in DOMAIN verifyCalls :
          verifyCalls[i].status = 0 /\ verifyCalls[j].status = 0 =>
              ServerTermsOf(verifyCalls[i]) = ServerTermsOf(verifyCalls[j])

(* two verified requests with one signature and nonce: one plain, one naming terms of
   its own in its headers and its body, with another text *)
C38_Witness ==
    \E i, j \in DOMAIN verifyCalls :
        /\ verifyCalls[i].status = 0 /\ verifyCalls[j].status = 0
        /\ verifyCalls[i].nonce = verifyCalls[j].nonce
        /\ verifyCalls[i].headerTerms = NoTerms /\ verifyCalls[i].bodyTerms = NoTerms
        /\ verifyCalls[j].headerTerms = ClientTerms /\ verifyCalls[j].bodyTerms = ClientTerms
        /\ verifyCalls[i].text # verifyCalls[j].text

(* ---- C39 ---- *)
(* C39: when CacheMiddleware has passed a request on and the handler has read the
   body, the handler has read exactly the bytes of the body that reached the server,
   from the first one on: the middleware's own read left nothing consumed. *)
C39_HandlerReadsWholeBody ==
    wire.pc = "done" => wire.got = SubSeq(wire.sent, 1, wire.arrives)

(* ---- C40 ---- *)
(* the requests inside TrackInFlightRequests, from its first statement to the end of
   its deferred function *)
InsideTracking == {c \in Conns : Inside(c)}

(* those of them that the count has been incremented for and not yet decremented:
   the handlers are running, have returned or are unwinding from a panic *)
Counted == {c \in Conns : conns[c] \in {"counted", "deferred", "panicking"}}

(* C40 as stated: in every state the count equals the number of requests between
   entry to and exit from TrackInFlightRequests. *)
C40_CountEqualsRequestsInside ==
    GetActiveRequestCount = Cardinality(InsideTracking)

(* C40, amended: the count equals the number of requests between the increment and
   the deferred decrement of TrackInFlightRequests, so it is never negative, never
   more than the number of requests inside, decremented once for every request that
   was counted, also when its handler panicked, and 0 when no request is inside. *)
C40_CountTracksCountedRequests ==
    /\ GetActiveRequestCount = Cardinality(Counted)
    /\ GetActiveRequestCount >= 0
    /\ GetActiveRequestCount <= Cardinality(InsideTracking)
    /\ InsideTracking = {} => GetActiveRequestCount = 0

(* one request has panicked and is through, one is being handled, one has not come *)
C40_Witness ==
    /\ \E c \in Conns : conns[c] = "panicked"
    /\ \E c \in Conns : conns[c] = "counted"
    /\ \E c \in Conns : conns[c] = "out"
    /\ GetActiveRequestCount = 1

====
